---- MODULE Spec2Model ----
(***************************************************************************)
(* Session/protocol layer of the language playground: the TypeScript REPL  *)
(* worker and its input framer, the TypeScript output worker and its idle  *)
(* tracker, the Python REPL worker, the REPL controllers and the output    *)
(* multiplexer of PythonOutput.                                            *)
(*                                                                         *)
(* Strings are sequences of characters (one-character strings), so that    *)
(* the scanners and text conversions are computed character by character.  *)
(***************************************************************************)
EXTENDS Integers, Sequences, FiniteSets, TLC

VARIABLES
    \* ---- input framer (typescript-repl-worker.js, isInputComplete)
    frSrc,        \* the source handed to isInputComplete
    frScan,       \* the scanner's locals at the end of the loop
    frResult,     \* "unset" | "complete" | "incomplete"
    \* ---- PythonOutput's output log (python-output.js)
    poOutputEl,   \* this.outputEl is set (the output window exists)
    poChildren,   \* the children of outputEl, in document order
    poFrags,      \* history: the non-empty stream fragments received since
                  \* outputEl was last emptied

    \* ---- TypeScript REPL worker (typescript-repl-worker.js)
    trCompiler,   \* tsCompiler is loaded
    trBuffer,     \* buffer
    trBusy,       \* busy
    trFlight,     \* the execute suspended at "await executeSource": its id and
                  \* what the import will do, or NoFlight
    trIn,         \* messages posted to the worker and not yet handled
    trOut,        \* messages posted by the worker and not yet handled
    trRejected,   \* history: the ids of the executes the busy guard returned on
    trLastPrompt, \* history: the prompt of the last prompt message posted
    trParts,      \* history: the commands accepted since buffer was last emptied
    trUnit,       \* history: the source handed to executeSource last
    trAfterIntr,  \* history: an interrupt was handled and no execute was
                  \* accepted since
    \* ---- TypeScript REPL controller (TypeScriptREPL)
    tcInit,       \* the promise of init(): "none" | "pending" | "resolved" | "rejected"
    tcTerm,       \* this.term is set
    tcPaused,     \* the terminal is paused
    tcPrompt,     \* the terminal's prompt
    tcCurrentPrompt, \* this.currentPrompt
    tcSent,       \* history: how many execute, interrupt and complete messages were sent
    tcInFlight,   \* history: ids of the executes sent whose done has not arrived
    tcSuperseded, \* history: ids of the executes in flight when interrupt was sent
    tcShown,      \* history: what the terminal was made to show
    \* ---- Python REPL worker (main.js, second part: the Pyodide worker)
    pyLoaded,     \* pyodide and pyconsole are set
    pyConsole,    \* pyconsole.buffer: the id of the execute that pushed each line
    pyFlight,     \* the executes suspended at "await wrapped": id and lines left
    pyIn,         \* messages posted to the worker and not yet handled
    pyOut,        \* messages posted by the worker and not yet handled
    pyInterleaved, \* history: pairs <<e, f>>: execute f pushed a line while e was suspended
    \* ---- Python REPL controller (PythonREPL)
    pcInit,       \* the promise of init()
    pcTerm,       \* this.term is set
    pcPaused,     \* the terminal is paused
    pcPrompt,     \* the terminal's prompt
    pcCurrentPrompt, \* this.currentPrompt
    pcSent,       \* history: how many execute, interrupt and complete messages were sent
    \* ---- TypeScript output worker
    toIsReady,    \* isReady
    toPendingTasks, \* pendingTasks
    toIdlePromise, \* idlePromise and idleResolve: 0 (null) or the run that created the promise
    toIdleTimer,  \* idleTimer: "null", "armed" (set and due), "stale" (set, already fired)
    toTimeouts,   \* activeTimeouts: the run that registered each and its callback
    toIntervals,  \* activeIntervals: the run that registered each and its ticks so far
    toRuns,       \* the run messages sent so far: their code and how far the handler is
    toWaiters,    \* the runs that await idlePromise, in the order they began to
    toIn,         \* messages posted to the worker and not yet handled
    toInitSent,   \* the init message was sent
    toOut,        \* history: the messages the worker posted, with the run that caused each
    \* ---- PythonOutput as a batch session, and its worker
    pbWorker,     \* this.worker is set
    pbIsReady,    \* isReady
    pbIsRunning,  \* isRunning
    pbNeedsInit,  \* _needsInit
    pbRunHandles, \* _runResolve and _runReject: 0 (null) or the run() call whose promise they settle
    pbRunPromise, \* _runPromise: 0 (null) or the run() call that created it
    pbInits,      \* the promises returned by init(): pending, resolved or rejected
    pbCalls,      \* the run() calls so far: where each is and the promise it created
    pbTerminated, \* history: how many times terminate() was called
    pbErrorDuring, \* history: the run() calls in flight on a ready worker when onerror fired
    pwLoaded,     \* pyodide and runCode are set
    pwLoading,    \* loadPyodideInstance is suspended: "none", "import" or "load"
    pwIn,         \* messages posted to the worker and not yet handled
    pwOut,        \* messages posted by the worker and not yet handled
    \* ---- PythonEditor (python-output.js) and the window that holds it (main.js)
    peEditor,     \* this.runBtn and this.statusEl: 0 (null) or the editor they belong to
    peButtons,    \* the run button of each editor created so far: disabled, textContent
    peStatus,     \* the textContent of the status element of each editor created so far
    peFocused,    \* this.editor.isFocused()
    peCalls,      \* history: the onRun calls so far: the editor that made each, and its state
    peClicks,     \* history: how many clicks and Command+R presses were handled
    \* ---- KeyBindings (keybindings.js)
    kbBindings,   \* this.bindings, in registration order
    kbListening,  \* _onKeyDown is registered on the target
    kbFocused,    \* what the when predicates of the bindings return
    kbEvent,      \* history: the last keydown event dispatched, or NoEvent
    kbInvoked,    \* history: the bindings whose handler ran for that event, in order
    kbAdded,      \* history: how many bindings were added so far
    kbRemoved,    \* history: the bindings added before the last removeAll()
    kbDestroyed,  \* history: destroy() was called
    \* ---- CodeStorage (code-storage.js) and the localStorage item of its key
    csValue,      \* this.value
    csItem,       \* localStorage.getItem(this.key): NoItem (null) or a string
    csLast        \* history: the last call, its argument and what it returned

frVars == <<frSrc, frScan, frResult>>
poVars == <<poOutputEl, poChildren, poFrags>>
trVars == <<trCompiler, trBuffer, trBusy, trFlight, trIn, trOut, trRejected,
            trLastPrompt, trParts, trUnit, trAfterIntr>>
tcVars == <<tcInit, tcTerm, tcPaused, tcPrompt, tcCurrentPrompt, tcSent,
            tcInFlight, tcSuperseded, tcShown>>
pyVars == <<pyLoaded, pyConsole, pyFlight, pyIn, pyOut, pyInterleaved>>
pcVars == <<pcInit, pcTerm, pcPaused, pcPrompt, pcCurrentPrompt, pcSent>>
toVars == <<toIsReady, toPendingTasks, toIdlePromise, toIdleTimer, toTimeouts,
           toIntervals, toRuns, toWaiters, toIn, toInitSent, toOut>>
pbVars == <<pbWorker, pbIsReady, pbIsRunning, pbNeedsInit, pbRunHandles, pbRunPromise,
           pbInits, pbCalls, pbTerminated, pbErrorDuring>>
pwVars == <<pwLoaded, pwLoading, pwIn, pwOut>>
peVars == <<peEditor, peButtons, peStatus, peFocused, peCalls, peClicks>>
kbVars == <<kbBindings, kbListening, kbFocused, kbEvent, kbInvoked, kbAdded, kbRemoved,
           kbDestroyed>>
csVars == <<csValue, csItem, csLast>>

vars == <<frVars, poVars, trVars, tcVars, pyVars, pcVars, toVars, pbVars, pwVars,
          peVars, kbVars, csVars>>

----------------------------------------------------------------------------
(* Bounds *)

MaxSrcLen == 3
MaxFrags == 3
MaxOps == 4
MaxPyOps == 3
MaxRuns == 2
MaxTicks == 1
MaxCalls == 3
MaxTerminates == 1
MaxScanLen == 4
MaxEditors == 2
MaxClicks == 3
MaxBindings == 2
MaxTextLen == 2

----------------------------------------------------------------------------
(* Characters *)

NL == "\n"
BS == "\\"
SQ == "'"
DQ == "\""
BT == "backtick"   \* the template quote, U+0060, which a TLA+ string cannot hold

Openers == {"{", "(", "["}
Closers == {"}", ")", "]"}

FramerAlphabet == Openers \cup Closers \cup {SQ, DQ, BT, BS, "/", "*", NL, "a"}

RECURSIVE SeqsUpTo(_, _)
SeqsUpTo(S, n) ==
    IF n = 0 THEN {<<>>}
    ELSE LET shorter == SeqsUpTo(S, n - 1)
         IN  shorter \cup {Append(s, c) : s \in {t \in shorter : Len(t) = n - 1}, c \in S}

----------------------------------------------------------------------------
(* isInputComplete: the scanner's locals, one loop iteration, the loop and  *)
(* the return expression.                                                   *)

ScanInit ==
    [i |-> 1, depth |-> 0, inSingle |-> FALSE, inDouble |-> FALSE,
     inTemplate |-> FALSE, inBlockComment |-> FALSE, inLineComment |-> FALSE,
     escaped |-> FALSE]

\* source[i + 1] of the code: undefined past the end, which equals no character
NextChar(source, i) == IF i + 1 <= Len(source) THEN source[i + 1] ELSE "undefined"

ScanInStringNoEscape(st, char, field, quote) ==
    [st EXCEPT ![field] = IF char = quote THEN FALSE ELSE @,
               !.escaped = FALSE,
               !.i = @ + 1]

\* the body of a string state: quote is the character that ends it
ScanInString(st, char, field, quote) ==
    IF ~st.escaped /\ char = BS
    THEN [st EXCEPT !.escaped = TRUE, !.i = @ + 1]
    ELSE [st EXCEPT ![field] = IF ~st.escaped /\ char = quote THEN FALSE ELSE @,
                    !.escaped = FALSE,
                    !.i = @ + 1]

ScanBracketClamped(st, char) ==
    IF char \in Openers THEN [st EXCEPT !.depth = @ + 1, !.i = @ + 1]
    ELSE IF char \in Closers
         THEN [st EXCEPT !.depth = IF @ > 0 THEN @ - 1 ELSE 0, !.i = @ + 1]
         ELSE [st EXCEPT !.i = @ + 1]

ScanBracket(st, char) ==
    IF char \in Openers THEN [st EXCEPT !.depth = @ + 1, !.i = @ + 1]
    ELSE IF char \in Closers THEN [st EXCEPT !.depth = @ - 1, !.i = @ + 1]
         ELSE [st EXCEPT !.i = @ + 1]

ScanStepNestedComment(st, source) ==
    LET char == source[st.i]
        next == NextChar(source, st.i)
    IN  IF st.inLineComment /\ ~(char = "/" /\ next = "*")
        THEN [st EXCEPT !.inLineComment = IF char = NL THEN FALSE ELSE @, !.i = @ + 1]
        ELSE IF st.inBlockComment
        THEN IF char = "*" /\ next = "/"
             THEN [st EXCEPT !.inBlockComment = FALSE, !.i = @ + 2]
             ELSE [st EXCEPT !.i = @ + 1]
        ELSE IF st.inSingle THEN ScanInString(st, char, "inSingle", SQ)
        ELSE IF st.inDouble THEN ScanInString(st, char, "inDouble", DQ)
        ELSE IF st.inTemplate THEN ScanInString(st, char, "inTemplate", BT)
        ELSE IF char = "/" /\ next = "/"
        THEN [st EXCEPT !.inLineComment = TRUE, !.i = @ + 2]
        ELSE IF char = "/" /\ next = "*"
        THEN [st EXCEPT !.inBlockComment = TRUE, !.i = @ + 2]
        ELSE IF char = SQ THEN [st EXCEPT !.inSingle = TRUE, !.i = @ + 1]
        ELSE IF char = DQ THEN [st EXCEPT !.inDouble = TRUE, !.i = @ + 1]
        ELSE IF char = BT THEN [st EXCEPT !.inTemplate = TRUE, !.i = @ + 1]
        ELSE ScanBracket(st, char)

\* one iteration of the for loop, i += 1 included
ScanStep(st, source) ==
    LET char == source[st.i]
        next == NextChar(source, st.i)
    IN  IF st.inLineComment
        THEN [st EXCEPT !.inLineComment = IF char = NL THEN FALSE ELSE @, !.i = @ + 1]
        ELSE IF st.inBlockComment
        THEN IF char = "*" /\ next = "/"
             THEN [st EXCEPT !.inBlockComment = FALSE, !.i = @ + 2]
             ELSE [st EXCEPT !.i = @ + 1]
        ELSE IF st.inSingle THEN ScanInString(st, char, "inSingle", SQ)
        ELSE IF st.inDouble THEN ScanInString(st, char, "inDouble", DQ)
        ELSE IF st.inTemplate THEN ScanInString(st, char, "inTemplate", BT)
        ELSE IF char = "/" /\ next = "/"
        THEN [st EXCEPT !.inLineComment = TRUE, !.i = @ + 2]
        ELSE IF char = "/" /\ next = "*"
        THEN [st EXCEPT !.inBlockComment = TRUE, !.i = @ + 2]
        ELSE IF char = SQ THEN [st EXCEPT !.inSingle = TRUE, !.i = @ + 1]
        ELSE IF char = DQ THEN [st EXCEPT !.inDouble = TRUE, !.i = @ + 1]
        ELSE IF char = BT THEN [st EXCEPT !.inTemplate = TRUE, !.i = @ + 1]
        ELSE ScanBracket(st, char)

RECURSIVE ScanLoop(_, _)
ScanLoop(st, source) ==
    IF st.i > Len(source) THEN st ELSE ScanLoop(ScanStep(st, source), source)

ScanReturnBalanced(st) ==
    st.depth = 0 /\ ~st.inSingle /\ ~st.inDouble /\ ~st.inTemplate
        /\ ~st.inBlockComment

ScanReturn(st) ==
    st.depth <= 0 /\ ~st.inSingle /\ ~st.inDouble /\ ~st.inTemplate
        /\ ~st.inBlockComment

isInputComplete(source) == ScanReturn(ScanLoop(ScanInit, source))

----------------------------------------------------------------------------
(* PythonOutput: the output log and the handlers that write to it.          *)

CR == "\r"

\* text.replace(/\r/g, '')
RECURSIVE StripCR(_)
StripCR(text) ==
    IF text = <<>> THEN <<>>
    ELSE IF Head(text) = CR THEN StripCR(Tail(text))
         ELSE <<Head(text)>> \o StripCR(Tail(text))

\* stream === 'stderr' ? 'stderr' : 'stdout'
StreamType(stream) == IF stream = "stderr" THEN "stderr" ELSE "stdout"

\* a <span class="output-chunk output-TYPE"> and a <div class="output-line output-TYPE">
Chunk(type, text) == [chunk |-> TRUE, type |-> type, text |-> text]
Line(type, text) == [chunk |-> FALSE, type |-> type, text |-> text]

\* PythonOutput.append(text, type) on the children of outputEl
append(children, text, type) == Append(children, Line(type, text))

appendStreamMergeAny(children, text, type) ==
    LET normalized == StripCR(text)
        n == Len(children)
    IN  IF n > 0 /\ children[n].chunk
        THEN [children EXCEPT ![n].text = @ \o normalized]
        ELSE Append(children, Chunk(type, normalized))

\* PythonOutput.appendStream(text, type) on the children of outputEl, outputEl
\* being set and text non-empty
appendStream(children, text, type) ==
    LET normalized == StripCR(text)
        n == Len(children)
    IN  IF n > 0 /\ children[n].type = type /\ children[n].chunk
        THEN [children EXCEPT ![n].text = @ \o normalized]
        ELSE Append(children, Chunk(type, normalized))

\* the texts a stream message carries
StreamTexts ==
    {<<>>, <<"a">>, <<"b">>, <<"c">>, <<CR>>, <<"a", CR, "b">>}

Streams == {"stdout", "stderr"}

\* the payloads of a result message: _run_code returns an exception text only
\* with exit code 1
ResultPayloads ==
    {[exception |-> <<>>, exitCode |-> 0], [exception |-> <<>>, exitCode |-> 1],
     [exception |-> <<"e">>, exitCode |-> 1]}

InitOutput ==
    /\ poOutputEl = FALSE
    /\ poChildren = <<>>
    /\ poFrags = <<>>

\* ensureWindow(): createWindow calls onReady at once, which sets outputEl to a
\* new, empty log
EnsureWindowChildren == IF poOutputEl THEN poChildren ELSE <<>>

\* worker.onmessage, case 'stream'
PoOnStream(stream, text) ==
    /\ Len(poFrags) < MaxFrags
    /\ poOutputEl' = TRUE
    /\ IF text = <<>>
       THEN /\ poChildren' = EnsureWindowChildren
            /\ UNCHANGED poFrags
       ELSE /\ poChildren' = appendStream(EnsureWindowChildren, text, StreamType(stream))
            /\ poFrags' = Append(poFrags, [stream |-> stream, text |-> text])

\* worker.onmessage, case 'result'
PoOnResult(exception, exitCode) ==
    /\ Len(poChildren) < MaxFrags
    /\ poOutputEl' = TRUE
    /\ poChildren' =
           append(IF exception # <<>>
                  THEN append(EnsureWindowChildren, exception, "exception")
                  ELSE EnsureWindowChildren,
                  <<"exit", exitCode>>, "exit")
    /\ UNCHANGED poFrags

\* PythonOutput.clear(): the Clear button, the key binding, and run()
PoClear ==
    /\ poOutputEl
    /\ poChildren' = <<>>
    /\ poFrags' = <<>>
    /\ UNCHANGED poOutputEl

----------------------------------------------------------------------------
(* TypeScript REPL worker.  A handler runs to its first real suspension,    *)
(* "await import(url)" in executeModule; awaits of settled promises resume  *)
(* before the next message is handled.                                      *)

DEFAULT_PROMPT == <<"t", "s", ">", " ">>
CONTINUATION_PROMPT == <<".", ".", ".", " ">>

NoFlight == [id |-> 0, fails |-> FALSE]

\* a message of the worker; of is the id of the execute whose handler posted
\* it (history), 0 for the other handlers
Msg(type, arg, of) == [type |-> type, arg |-> arg, of |-> of]

JoinBufferNoNewline(buf, command) == buf \o command

\* `${buffer}\n${command}`, or command when buffer is empty
JoinBuffer(buf, command) == IF buf # <<>> THEN buf \o <<NL>> \o command ELSE command

\* what compiling and executing a complete buffer does; the compiler and the
\* executed code are outside this program
\*   compileError: hasErrorDiagnostics, executeSource posts the error and returns
\*   throw:        the evaluated script writes output and throws
\*   script:       the script runs and has a value (flag), or writes output
\*   module:       executeModule awaits the import; the module writes output
\*                 while it is evaluated and the import resolves or rejects (flag)
ExecOutcomes ==
    {[kind |-> "compileError", flag |-> FALSE], [kind |-> "throw", flag |-> FALSE]}
    \cup {[kind |-> k, flag |-> f] : k \in {"script", "module"}, f \in BOOLEAN}

\* what console.log posts while the code runs
Log(id) == Msg("output", <<"l">>, id)

\* the catch block and the finally block of case 'execute'
ExecuteCatch(id) ==
    <<Msg("error", <<"x">>, id), Msg("prompt", DEFAULT_PROMPT, id), Msg("done", <<>>, id)>>

ExecuteEndNoDone(id) == <<Msg("prompt", DEFAULT_PROMPT, id)>>

\* the statements after "await executeSource" and the finally block
ExecuteEnd(id) == <<Msg("prompt", DEFAULT_PROMPT, id), Msg("done", <<>>, id)>>

ExecuteRejectedNever == FALSE

\* if (busy) return
ExecuteRejected == trBusy

InterruptBufferKept == trBuffer

IncompleteBufferDropped(joined) == <<>>

\* case 'execute', the buffer is not complete: buffer keeps the joined text
IncompleteBuffer(joined) == joined

\* case 'interrupt': buffer = ''
InterruptBuffer == <<>>

\* the prompt of the last prompt message among msgs, or the one before them
RECURSIVE LastPromptOf(_, _)
LastPromptOf(msgs, before) ==
    IF msgs = <<>> THEN before
    ELSE IF msgs[Len(msgs)].type = "prompt" THEN msgs[Len(msgs)].arg
         ELSE LastPromptOf(SubSeq(msgs, 1, Len(msgs) - 1), before)

\* self.postMessage, for each of msgs in order
Post(msgs) ==
    /\ trOut' = trOut \o msgs
    /\ trLastPrompt' = LastPromptOf(msgs, trLastPrompt)

\* case 'init'
TrOnInit(fails) ==
    IF fails
    THEN /\ Post(<<Msg("status", <<>>, 0), Msg("error", <<"x">>, 0)>>)
         /\ UNCHANGED <<trCompiler, trBuffer, trBusy, trFlight, trRejected, trParts, trUnit,
                        trAfterIntr>>
    ELSE /\ trCompiler' = TRUE
         /\ Post((IF trCompiler THEN <<>>
                  ELSE <<Msg("status", <<>>, 0), Msg("status", <<>>, 0)>>)
                 \o <<Msg("ready", DEFAULT_PROMPT, 0)>>)
         /\ UNCHANGED <<trBuffer, trBusy, trFlight, trRejected, trParts, trUnit, trAfterIntr>>

\* case 'execute'
TrOnExecute(m, outcome) ==
    IF ExecuteRejected
    THEN /\ trRejected' = trRejected \cup {m.id}
         /\ UNCHANGED <<trCompiler, trBuffer, trBusy, trFlight, trOut, trLastPrompt,
                        trParts, trUnit, trAfterIntr>>
    ELSE LET joined == JoinBuffer(trBuffer, m.command)
         IN  /\ trAfterIntr' = FALSE
             /\ UNCHANGED <<trCompiler, trRejected>>
             /\ IF ~isInputComplete(joined)
                THEN /\ trBuffer' = IncompleteBuffer(joined)
                     /\ trParts' = Append(trParts, m.command)
                     /\ UNCHANGED trUnit
                     /\ trBusy' = FALSE
                     /\ Post(<<Msg("prompt", CONTINUATION_PROMPT, m.id),
                               Msg("done", <<>>, m.id)>>)
                     /\ UNCHANGED trFlight
                ELSE /\ trParts' = <<>>
                     /\ trUnit' = joined
                     /\ CASE ~trCompiler ->
                            /\ trBuffer' = <<>>
                            /\ trBusy' = FALSE
                            /\ Post(ExecuteCatch(m.id))
                            /\ UNCHANGED trFlight
                       [] trCompiler /\ outcome.kind = "compileError" ->
                            /\ trBuffer' = <<>>
                            /\ trBusy' = FALSE
                            /\ Post(<<Msg("error", <<"c">>, m.id)>> \o ExecuteEnd(m.id))
                            /\ UNCHANGED trFlight
                       [] trCompiler /\ outcome.kind = "throw" ->
                            /\ trBuffer' = <<>>
                            /\ trBusy' = FALSE
                            /\ Post(<<Log(m.id)>> \o ExecuteCatch(m.id))
                            /\ UNCHANGED trFlight
                       [] trCompiler /\ outcome.kind = "script" ->
                            /\ trBuffer' = <<>>
                            /\ trBusy' = FALSE
                            /\ Post((IF outcome.flag THEN <<Msg("output", <<"v">>, m.id)>>
                                     ELSE <<Log(m.id)>>)
                                    \o ExecuteEnd(m.id))
                            /\ UNCHANGED trFlight
                       [] trCompiler /\ outcome.kind = "module" ->
                            /\ trBuffer' = joined
                            /\ trBusy' = TRUE
                            /\ trFlight' = [id |-> m.id, fails |-> outcome.flag]
                            /\ UNCHANGED <<trOut, trLastPrompt>>

\* case 'interrupt'
TrOnInterrupt ==
    /\ trBuffer' = InterruptBuffer
    /\ Post(<<Msg("prompt", DEFAULT_PROMPT, 0), Msg("interrupted", <<>>, 0)>>)
    /\ trAfterIntr' = TRUE
    /\ trParts' = <<>>
    /\ UNCHANGED trUnit
    /\ UNCHANGED <<trCompiler, trBusy, trFlight, trRejected>>

TrOnCompleteTwice ==
    /\ Post(<<Msg("completions", <<>>, 0), Msg("completions", <<>>, 0)>>)
    /\ UNCHANGED <<trCompiler, trBuffer, trBusy, trFlight, trRejected, trParts, trUnit, trAfterIntr>>

\* case 'complete'
TrOnComplete ==
    /\ Post(<<Msg("completions", <<>>, 0)>>)
    /\ UNCHANGED <<trCompiler, trBuffer, trBusy, trFlight, trRejected, trParts, trUnit, trAfterIntr>>

\* self.onmessage: the oldest message posted to the worker is handled
TrReceive ==
    /\ trIn # <<>>
    /\ trIn' = Tail(trIn)
    /\ LET m == Head(trIn)
       IN  CASE m.type = "init" -> \E fails \in BOOLEAN : TrOnInit(fails)
             [] m.type = "execute" -> \E outcome \in ExecOutcomes : TrOnExecute(m, outcome)
             [] m.type = "interrupt" -> TrOnInterrupt
             [] m.type = "complete" -> TrOnComplete

\* the import awaited by executeModule settles: the module has written its
\* output, and the execute handler resumes after the await or in its catch
TrImportSettles ==
    /\ trFlight # NoFlight
    /\ trFlight' = NoFlight
    /\ trBuffer' = <<>>
    /\ trBusy' = FALSE
    /\ Post(<<Log(trFlight.id)>>
            \o (IF trFlight.fails THEN ExecuteCatch(trFlight.id)
                ELSE ExecuteEnd(trFlight.id)))
    /\ UNCHANGED <<trCompiler, trIn, trRejected, trParts, trUnit, trAfterIntr>>

InitTsReplWorker ==
    /\ trCompiler = FALSE
    /\ trBuffer = <<>>
    /\ trBusy = FALSE
    /\ trFlight = NoFlight
    /\ trIn = <<>>
    /\ trOut = <<>>
    /\ trRejected = {}
    /\ trLastPrompt = DEFAULT_PROMPT
    /\ trParts = <<>>
    /\ trUnit = <<>>
    /\ trAfterIntr = FALSE

----------------------------------------------------------------------------
(* TypeScript REPL controller.  The terminal widget calls the interpreter   *)
(* for a command entered while it is not paused; the key map is bound for   *)
(* the life of the terminal.                                                *)

\* the commands entered at the terminal
Commands == {<<"{">>, <<"}">>, <<"a">>}

OpsSent == tcSent.execute + tcSent.interrupt + tcSent.complete

Shown(kind, arg, of) ==
    [kind |-> kind, arg |-> arg, of |-> of, late |-> of \in tcSuperseded]

WorkerUnchangedButIn ==
    UNCHANGED <<trCompiler, trBuffer, trBusy, trFlight, trOut, trRejected,
                trLastPrompt, trParts, trUnit, trAfterIntr>>

\* TypeScriptREPL.init
TcInit ==
    /\ tcInit = "none"
    /\ tcInit' = "pending"
    /\ trIn' = Append(trIn, [type |-> "init", command |-> <<>>, id |-> 0])
    /\ UNCHANGED <<tcTerm, tcPaused, tcPrompt, tcCurrentPrompt, tcSent,
                   tcInFlight, tcSuperseded, tcShown>>
    /\ WorkerUnchangedButIn

\* interpreter(command)
TcInterpreter(command) ==
    /\ tcTerm /\ ~tcPaused
    /\ OpsSent < MaxOps
    /\ tcPaused' = TRUE
    /\ tcSent' = [tcSent EXCEPT !.execute = @ + 1]
    /\ trIn' = Append(trIn, [type |-> "execute", command |-> command,
                             id |-> tcSent.execute + 1])
    /\ tcInFlight' = tcInFlight \cup {tcSent.execute + 1}
    /\ UNCHANGED <<tcInit, tcTerm, tcPrompt, tcCurrentPrompt, tcSuperseded, tcShown>>
    /\ WorkerUnchangedButIn

\* keymap 'CTRL+C'
TcCtrlC ==
    /\ tcTerm
    /\ OpsSent < MaxOps
    /\ tcSent' = [tcSent EXCEPT !.interrupt = @ + 1]
    /\ trIn' = Append(trIn, [type |-> "interrupt", command |-> <<>>, id |-> 0])
    /\ tcSuperseded' = tcSuperseded \cup tcInFlight
    /\ UNCHANGED <<tcInit, tcTerm, tcPaused, tcPrompt, tcCurrentPrompt,
                   tcInFlight, tcShown>>
    /\ WorkerUnchangedButIn

\* completion(command, callback)
TcCompletion ==
    /\ tcTerm /\ ~tcPaused
    /\ OpsSent < MaxOps
    /\ tcSent' = [tcSent EXCEPT !.complete = @ + 1]
    /\ trIn' = Append(trIn, [type |-> "complete", command |-> <<>>, id |-> 0])
    /\ UNCHANGED <<tcInit, tcTerm, tcPaused, tcPrompt, tcCurrentPrompt,
                   tcInFlight, tcSuperseded, tcShown>>
    /\ WorkerUnchangedButIn

\* worker.onmessage: the oldest message of the worker not yet handled
TcOnMessage ==
    /\ trOut # <<>>
    /\ trOut' = Tail(trOut)
    /\ LET m == Head(trOut)
       IN  CASE m.type = "ready" ->
                    /\ tcTerm' = TRUE
                    /\ tcPaused' = FALSE
                    /\ tcPrompt' = m.arg
                    /\ tcInit' = IF tcInit = "pending" THEN "resolved" ELSE tcInit
                    /\ UNCHANGED <<tcCurrentPrompt, tcInFlight, tcShown>>
             [] m.type = "output" ->
                    /\ tcShown' = IF tcTerm THEN tcShown \cup {Shown("echo", m.arg, m.of)}
                                  ELSE tcShown
                    /\ UNCHANGED <<tcInit, tcTerm, tcPaused, tcPrompt, tcCurrentPrompt, tcInFlight>>
             [] m.type = "error" ->
                    /\ tcShown' = IF tcTerm THEN tcShown \cup {Shown("error", m.arg, m.of)}
                                  ELSE tcShown
                    /\ tcInit' = IF ~tcTerm /\ tcInit = "pending" THEN "rejected" ELSE tcInit
                    /\ UNCHANGED <<tcTerm, tcPaused, tcPrompt, tcCurrentPrompt, tcInFlight>>
             [] m.type = "prompt" ->
                    /\ tcCurrentPrompt' = IF tcTerm THEN m.arg ELSE tcCurrentPrompt
                    /\ tcPrompt' = IF tcTerm THEN m.arg ELSE tcPrompt
                    /\ tcShown' = IF tcTerm THEN tcShown \cup {Shown("prompt", m.arg, m.of)}
                                  ELSE tcShown
                    /\ UNCHANGED <<tcInit, tcTerm, tcPaused, tcInFlight>>
             [] m.type = "done" ->
                    /\ tcPaused' = IF tcTerm THEN FALSE ELSE tcPaused
                    /\ tcInFlight' = tcInFlight \ {m.of}
                    /\ UNCHANGED <<tcInit, tcTerm, tcPrompt, tcCurrentPrompt, tcShown>>
             [] m.type = "interrupted" ->
                    /\ tcShown' = IF tcTerm
                                  THEN tcShown \cup {Shown("echo", <<"I">>, 0)}
                                  ELSE tcShown
                    /\ tcPrompt' = IF tcTerm THEN DEFAULT_PROMPT ELSE tcPrompt
                    /\ tcPaused' = IF tcTerm THEN FALSE ELSE tcPaused
                    /\ UNCHANGED <<tcInit, tcTerm, tcCurrentPrompt, tcInFlight>>
             [] OTHER ->
                    UNCHANGED <<tcInit, tcTerm, tcPaused, tcPrompt, tcCurrentPrompt,
                                tcInFlight, tcShown>>
    /\ UNCHANGED <<tcSent, tcSuperseded>>
    /\ UNCHANGED <<trCompiler, trBuffer, trBusy, trFlight, trIn, trRejected,
                   trLastPrompt, trParts, trUnit, trAfterIntr>>

\* a page other than TypeScriptREPL posts to the worker whenever it likes
TwPostExecute(command) ==
    /\ OpsSent < MaxOps
    /\ tcSent' = [tcSent EXCEPT !.execute = @ + 1]
    /\ trIn' = Append(trIn, [type |-> "execute", command |-> command,
                             id |-> tcSent.execute + 1])
    /\ UNCHANGED <<tcInit, tcTerm, tcPaused, tcPrompt, tcCurrentPrompt,
                   tcInFlight, tcSuperseded, tcShown>>
    /\ WorkerUnchangedButIn

TwPostInterrupt ==
    /\ OpsSent < MaxOps
    /\ tcSent' = [tcSent EXCEPT !.interrupt = @ + 1]
    /\ trIn' = Append(trIn, [type |-> "interrupt", command |-> <<>>, id |-> 0])
    /\ UNCHANGED <<tcInit, tcTerm, tcPaused, tcPrompt, tcCurrentPrompt,
                   tcInFlight, tcSuperseded, tcShown>>
    /\ WorkerUnchangedButIn

TwPostComplete ==
    /\ OpsSent < MaxOps
    /\ tcSent' = [tcSent EXCEPT !.complete = @ + 1]
    /\ trIn' = Append(trIn, [type |-> "complete", command |-> <<>>, id |-> 0])
    /\ UNCHANGED <<tcInit, tcTerm, tcPaused, tcPrompt, tcCurrentPrompt,
                   tcInFlight, tcSuperseded, tcShown>>
    /\ WorkerUnchangedButIn

InitTsReplController ==
    /\ tcInit = "none"
    /\ tcTerm = FALSE
    /\ tcPaused = FALSE
    /\ tcPrompt = DEFAULT_PROMPT
    /\ tcCurrentPrompt = DEFAULT_PROMPT
    /\ tcSent = [execute |-> 0, interrupt |-> 0, complete |-> 0]
    /\ tcInFlight = {}
    /\ tcSuperseded = {}
    /\ tcShown = {}

InitTsRepl == InitTsReplWorker /\ InitTsReplController

----------------------------------------------------------------------------
(* Python REPL worker.  The execute handler pushes the lines of a command   *)
(* to the one PyodideConsole and suspends at "await wrapped" for every      *)
(* complete line; other messages are handled while it is suspended.         *)

PS1 == <<">", ">", ">", " ">>
PS2 == <<".", ".", ".", " ">>

\* fut.syntax_check of pyconsole.push(line); the console is outside this program
SyntaxChecks == {"incomplete", "complete", "syntax-error"}

\* how the awaited future of a complete line settles: with a value, with None,
\* with a PythonError, or with another error
FutureResults == {"value", "none", "PythonError", "error"}

\* the for loop of case 'execute' from the first of lines on, up to the first
\* "await wrapped" or the end of the loop; checks are the results of the pushes
RECURSIVE ExecuteLoop(_, _, _, _, _)
ExecuteLoop(id, lines, checks, console, out) ==
    IF lines = <<>>
    THEN [console |-> console, out |-> Append(out, Msg("done", <<>>, id)),
          suspended |-> FALSE, rest |-> <<>>]
    ELSE CASE Head(checks) = "incomplete" ->
                ExecuteLoop(id, Tail(lines), Tail(checks), Append(console, id),
                            Append(out, Msg("prompt", PS2, id)))
           [] Head(checks) = "syntax-error" ->
                ExecuteLoop(id, Tail(lines), Tail(checks), <<>>,
                            out \o <<Msg("prompt", PS1, id), Msg("error", <<"s">>, id)>>)
           [] Head(checks) = "complete" ->
                [console |-> <<>>, out |-> Append(out, Msg("prompt", PS1, id)),
                 suspended |-> TRUE, rest |-> Tail(lines)]

\* the executes other than id that are suspended while id pushes a line
PushedBetween(id) == {<<f.id, id>> : f \in {g \in pyFlight : g.id # id}}

\* the execute handler runs from the first of lines on
PyRunLines(id, lines, checks) ==
    LET r == ExecuteLoop(id, lines, checks, pyConsole, <<>>)
    IN  /\ pyConsole' = r.console
        /\ pyOut' = pyOut \o r.out
        /\ pyFlight' = {g \in pyFlight : g.id # id}
                          \cup (IF r.suspended THEN {[id |-> id, rest |-> r.rest]} ELSE {})
        /\ pyInterleaved' = pyInterleaved
                          \cup (IF lines # <<>> THEN PushedBetween(id) ELSE {})

\* loadPyodideInstance, case 'init'
PyOnInit(fails) ==
    /\ pyLoaded' = (pyLoaded \/ ~fails)
    /\ pyOut' = pyOut \o <<Msg("status", <<>>, 0), Msg("status", <<>>, 0)>>
                      \o (IF fails THEN <<Msg("error", <<"x">>, 0)>>
                          ELSE <<Msg("ready", <<>>, 0)>>)
    /\ UNCHANGED <<pyConsole, pyFlight, pyInterleaved>>

\* case 'execute'
PyOnExecute(m, checks) ==
    IF ~pyLoaded
    THEN /\ pyOut' = Append(pyOut, Msg("error", <<"n">>, m.id))
         /\ UNCHANGED <<pyLoaded, pyConsole, pyFlight, pyInterleaved>>
    ELSE /\ PyRunLines(m.id, m.command, checks)
         /\ UNCHANGED pyLoaded

\* case 'interrupt'
PyOnInterrupt ==
    IF pyLoaded
    THEN /\ pyConsole' = <<>>
         /\ pyOut' = Append(pyOut, Msg("interrupted", <<>>, 0))
         /\ UNCHANGED <<pyLoaded, pyFlight, pyInterleaved>>
    ELSE UNCHANGED <<pyLoaded, pyConsole, pyFlight, pyOut, pyInterleaved>>

\* case 'complete'
PyOnComplete ==
    /\ pyOut' = Append(pyOut, Msg("completions", <<>>, 0))
    /\ UNCHANGED <<pyLoaded, pyConsole, pyFlight, pyInterleaved>>

\* the results of the pushes of lines, one for each line
LineChecks(lines) == [1..Len(lines) -> SyntaxChecks]

\* self.onmessage: the oldest message posted to the worker is handled
PyReceive ==
    /\ pyIn # <<>>
    /\ pyIn' = Tail(pyIn)
    /\ LET m == Head(pyIn)
       IN  CASE m.type = "init" -> \E fails \in BOOLEAN : PyOnInit(fails)
             [] m.type = "execute" ->
                    \E checks \in LineChecks(m.command) : PyOnExecute(m, checks)
             [] m.type = "interrupt" -> PyOnInterrupt
             [] m.type = "complete" -> PyOnComplete

\* the future awaited by a suspended execute settles; the handler posts the
\* value or the error and goes on with the lines left, or leaves through the
\* outer catch, which posts an error and no done
PyFutureSettles ==
    \E g \in pyFlight, result \in FutureResults :
      \E checks \in LineChecks(g.rest) :
        /\ UNCHANGED <<pyLoaded, pyIn>>
        /\ IF result = "error"
           THEN /\ pyOut' = Append(pyOut, Msg("error", <<"j">>, g.id))
                /\ pyFlight' = pyFlight \ {g}
                /\ UNCHANGED <<pyConsole, pyInterleaved>>
           ELSE LET r == ExecuteLoop(g.id, g.rest, checks, pyConsole,
                                     CASE result = "value" -> <<Msg("output", <<"v">>, g.id)>>
                                       [] result = "none" -> <<>>
                                       [] result = "PythonError" ->
                                              <<Msg("error", <<"p">>, g.id)>>)
                IN  /\ pyConsole' = r.console
                    /\ pyOut' = pyOut \o r.out
                    /\ pyFlight' = (pyFlight \ {g})
                          \cup (IF r.suspended THEN {[id |-> g.id, rest |-> r.rest]} ELSE {})
                    /\ pyInterleaved' = pyInterleaved
                          \cup (IF g.rest # <<>> THEN PushedBetween(g.id) ELSE {})

InitPyReplWorker ==
    /\ pyLoaded = FALSE
    /\ pyConsole = <<>>
    /\ pyFlight = {}
    /\ pyIn = <<>>
    /\ pyOut = <<>>
    /\ pyInterleaved = {}

----------------------------------------------------------------------------
(* Python REPL controller.                                                  *)

\* the commands entered at the terminal, as their lines
PyCommands == {<<"l">>, <<"l", "l">>}

PyOpsSent == pcSent.execute + pcSent.interrupt + pcSent.complete

PyWorkerUnchangedButIn ==
    UNCHANGED <<pyLoaded, pyConsole, pyFlight, pyOut, pyInterleaved>>

\* PythonREPL.init
PcInit ==
    /\ pcInit = "none"
    /\ pcInit' = "pending"
    /\ pyIn' = Append(pyIn, [type |-> "init", command |-> <<>>, id |-> 0])
    /\ UNCHANGED <<pcTerm, pcPaused, pcPrompt, pcCurrentPrompt, pcSent>>
    /\ PyWorkerUnchangedButIn

\* interpreter(command)
PcInterpreter(command) ==
    /\ pcTerm /\ ~pcPaused
    /\ PyOpsSent < MaxPyOps
    /\ pcPaused' = TRUE
    /\ pcSent' = [pcSent EXCEPT !.execute = @ + 1]
    /\ pyIn' = Append(pyIn, [type |-> "execute", command |-> command,
                             id |-> pcSent.execute + 1])
    /\ UNCHANGED <<pcInit, pcTerm, pcPrompt, pcCurrentPrompt>>
    /\ PyWorkerUnchangedButIn

\* keymap 'CTRL+C'
PcCtrlC ==
    /\ pcTerm
    /\ PyOpsSent < MaxPyOps
    /\ pcSent' = [pcSent EXCEPT !.interrupt = @ + 1]
    /\ pyIn' = Append(pyIn, [type |-> "interrupt", command |-> <<>>, id |-> 0])
    /\ UNCHANGED <<pcInit, pcTerm, pcPaused, pcPrompt, pcCurrentPrompt>>
    /\ PyWorkerUnchangedButIn

\* completion(command, callback)
PcCompletion ==
    /\ pcTerm /\ ~pcPaused
    /\ PyOpsSent < MaxPyOps
    /\ pcSent' = [pcSent EXCEPT !.complete = @ + 1]
    /\ pyIn' = Append(pyIn, [type |-> "complete", command |-> <<>>, id |-> 0])
    /\ UNCHANGED <<pcInit, pcTerm, pcPaused, pcPrompt, pcCurrentPrompt>>
    /\ PyWorkerUnchangedButIn

\* worker.onmessage: the oldest message of the worker not yet handled
PcOnMessage ==
    /\ pyOut # <<>>
    /\ pyOut' = Tail(pyOut)
    /\ LET m == Head(pyOut)
       IN  CASE m.type = "ready" ->
                    /\ pcTerm' = TRUE
                    /\ pcPaused' = FALSE
                    /\ pcPrompt' = PS1
                    /\ pcInit' = IF pcInit = "pending" THEN "resolved" ELSE pcInit
                    /\ UNCHANGED pcCurrentPrompt
             [] m.type = "error" ->
                    /\ pcInit' = IF ~pcTerm /\ pcInit = "pending" THEN "rejected" ELSE pcInit
                    /\ UNCHANGED <<pcTerm, pcPaused, pcPrompt, pcCurrentPrompt>>
             [] m.type = "prompt" ->
                    /\ pcCurrentPrompt' = IF pcTerm THEN m.arg ELSE pcCurrentPrompt
                    /\ pcPrompt' = IF pcTerm THEN m.arg ELSE pcPrompt
                    /\ UNCHANGED <<pcInit, pcTerm, pcPaused>>
             [] m.type = "done" ->
                    /\ pcPaused' = IF pcTerm THEN FALSE ELSE pcPaused
                    /\ UNCHANGED <<pcInit, pcTerm, pcPrompt, pcCurrentPrompt>>
             [] m.type = "interrupted" ->
                    /\ pcPrompt' = IF pcTerm THEN PS1 ELSE pcPrompt
                    /\ pcPaused' = IF pcTerm THEN FALSE ELSE pcPaused
                    /\ UNCHANGED <<pcInit, pcTerm, pcCurrentPrompt>>
             [] OTHER ->
                    UNCHANGED <<pcInit, pcTerm, pcPaused, pcPrompt, pcCurrentPrompt>>
    /\ UNCHANGED pcSent
    /\ UNCHANGED <<pyLoaded, pyConsole, pyFlight, pyIn, pyInterleaved>>

InitPyReplController ==
    /\ pcInit = "none"
    /\ pcTerm = FALSE
    /\ pcPaused = FALSE
    /\ pcPrompt = PS1
    /\ pcCurrentPrompt = PS1
    /\ pcSent = [execute |-> 0, interrupt |-> 0, complete |-> 0]

InitPyRepl == InitPyReplWorker /\ InitPyReplController

----------------------------------------------------------------------------
(* TypeScript output worker.  A run resets the timer registries, executes   *)
(* the code and waits for idle; the handler is suspended while a module is  *)
(* imported and while it awaits idlePromise, and other messages and timer   *)
(* callbacks are handled meanwhile.                                         *)

\* what the code of a run does at its top level, statement by statement:
\*   log             console.log(x)
\*   timeoutLog      setTimeout(() => console.log(x), d)
\*   timeoutChain    setTimeout(() => { console.log(x); setTimeout(() => console.log(y), d) }, d)
\*   timeoutCleared  clearTimeout(setTimeout(() => console.log(x), d))
\*   interval        setInterval(() => console.log(x), d)
\*   throw           throw new Error(x)
Bodies == {<<>>, <<"log">>, <<"timeoutLog">>, <<"timeoutLog", "throw">>,
           <<"timeoutChain">>, <<"timeoutCleared">>, <<"interval">>,
           <<"timeoutChain2", "throw">>, <<"timeoutLog", "timeoutClearedTwice">>,
           <<"timeoutSelfClear", "clearUnknown">>, <<"intervalStopped">>}

\* the code of a run message: it fails to compile, or is a script or a module
Programs == {[kind |-> "compileError", body |-> <<>>]}
            \cup [kind : {"script", "module"}, body : Bodies]

Posted(type, run, by) == [type |-> type, run |-> run, by |-> by]

Max(a, b) == IF a >= b THEN a ELSE b

\* scheduleIdleResolve; st holds pendingTasks and idleTimer, idle is idleResolve
scheduleIdleResolve(st, idle) ==
    IF idle = 0 THEN st ELSE [st EXCEPT !.idleTimer = "armed"]

updatePendingNoCancel(st, delta, idle) ==
    LET p == Max(0, st.pendingTasks + delta)
    IN  IF p = 0
        THEN scheduleIdleResolve([st EXCEPT !.pendingTasks = p], idle)
        ELSE [st EXCEPT !.pendingTasks = p]

\* updatePending(delta)
updatePending(st, delta, idle) ==
    LET p == Max(0, st.pendingTasks + delta)
    IN  IF p = 0
        THEN scheduleIdleResolve([st EXCEPT !.pendingTasks = p], idle)
        ELSE [st EXCEPT !.pendingTasks = p, !.idleTimer = "null"]

\* self.setTimeout(handler, timeout) called by run, handler being cb
setTimeout(st, run, cb, idle) ==
    updatePending([st EXCEPT !.timeouts = @ \cup {[run |-> run, cb |-> cb]}], 1, idle)

clearTimeoutAlways(st, run, cb, idle) ==
    updatePending([st EXCEPT !.timeouts = @ \ {[run |-> run, cb |-> cb]}], -1, idle)

\* self.clearTimeout(id) of the timeout that run registered with handler cb
clearTimeout(st, run, cb, idle) ==
    IF [run |-> run, cb |-> cb] \in st.timeouts
    THEN updatePending([st EXCEPT !.timeouts = @ \ {[run |-> run, cb |-> cb]}], -1, idle)
    ELSE st

setIntervalUncounted(st, run, stop, idle) ==
    [st EXCEPT !.intervals = @ \cup {[run |-> run, ticks |-> 0, stop |-> stop]}]

\* self.setInterval(handler, timeout) called by run; stop tells whether the
\* handler clears the interval when it runs
setInterval(st, run, stop, idle) ==
    updatePending([st EXCEPT !.intervals = @ \cup {[run |-> run, ticks |-> 0, stop |-> stop]}],
                  1, idle)

\* self.clearInterval(id) of the interval i
clearInterval(st, i, idle) ==
    IF i \in st.intervals
    THEN updatePending([st EXCEPT !.intervals = @ \ {i}], -1, idle)
    ELSE st

\* patchConsole's emit, called by code of run from its top level or a callback
emit(st, run, by) == [st EXCEPT !.out = Append(@, Posted("stream", run, by))]

\* the top-level code of run executes from the first statement of body on
RECURSIVE ExecuteBody(_, _, _, _)
ExecuteBody(body, st, run, idle) ==
    IF body = <<>> THEN st
    ELSE CASE Head(body) = "log" ->
                ExecuteBody(Tail(body), emit(st, run, "top"), run, idle)
           [] Head(body) = "timeoutLog" ->
                ExecuteBody(Tail(body), setTimeout(st, run, "log", idle), run, idle)
           [] Head(body) = "timeoutChain" ->
                ExecuteBody(Tail(body), setTimeout(st, run, "chain", idle), run, idle)
           [] Head(body) = "timeoutCleared" ->
                ExecuteBody(Tail(body),
                            clearTimeout(setTimeout(st, run, "cleared", idle),
                                         run, "cleared", idle),
                            run, idle)
           [] Head(body) = "timeoutChain2" ->
                ExecuteBody(Tail(body), setTimeout(st, run, "chain2", idle), run, idle)
           [] Head(body) = "timeoutClearedTwice" ->
                ExecuteBody(Tail(body),
                            clearTimeout(clearTimeout(setTimeout(st, run, "cleared", idle),
                                                      run, "cleared", idle),
                                         run, "cleared", idle),
                            run, idle)
           [] Head(body) = "timeoutSelfClear" ->
                ExecuteBody(Tail(body), setTimeout(st, run, "selfClear", idle), run, idle)
           [] Head(body) = "clearUnknown" ->
                ExecuteBody(Tail(body), clearTimeout(st, run, "unknown", idle), run, idle)
           [] Head(body) = "interval" ->
                ExecuteBody(Tail(body), setInterval(st, run, FALSE, idle), run, idle)
           [] Head(body) = "intervalStopped" ->
                ExecuteBody(Tail(body), setInterval(st, run, TRUE, idle), run, idle)
           [] Head(body) = "throw" ->
                [st EXCEPT !.threw = TRUE]

\* the worker's timer state as a record, and back
TimerState ==
    [pendingTasks |-> toPendingTasks, idleTimer |-> toIdleTimer,
     timeouts |-> toTimeouts, intervals |-> toIntervals, out |-> toOut, threw |-> FALSE]

\* resetPendingTasks
resetPendingTasks(st) ==
    [st EXCEPT !.timeouts = {}, !.intervals = {}, !.pendingTasks = 0, !.idleTimer = "null"]

SetTimerState(st) ==
    /\ toPendingTasks' = st.pendingTasks
    /\ toIdleTimer' = st.idleTimer
    /\ toTimeouts' = st.timeouts
    /\ toIntervals' = st.intervals
    /\ toOut' = st.out

\* case 'run' after runSource has returned or thrown: catch and finally, or
\* waitForIdle and the suspension at "await waitForIdle()"
AfterRunSource(run, st, idle, runs, waiters) ==
    IF st.threw
    THEN /\ SetTimerState([st EXCEPT !.out = @ \o <<Posted("error", run, "handler"),
                                                    Posted("done", run, "handler")>>])
         /\ toIdlePromise' = idle
         /\ toRuns' = [runs EXCEPT ![run].phase = "done"]
         /\ toWaiters' = waiters
    ELSE /\ SetTimerState(IF idle = 0 /\ st.pendingTasks = 0
                          THEN scheduleIdleResolve(st, run) ELSE st)
         /\ toIdlePromise' = (IF idle = 0 THEN run ELSE idle)
         /\ toRuns' = [runs EXCEPT ![run].phase = "idle"]
         /\ toWaiters' = Append(waiters, run)

\* the runs that awaited the promise dropped by resetPendingTasks
Orphaned(runs) ==
    [r \in DOMAIN runs |->
        IF runs[r].phase = "idle" THEN [runs[r] EXCEPT !.phase = "orphaned"] ELSE runs[r]]

\* history: the handler of run begins while the handlers of the runs in
\* flight are suspended; those runs and run itself are marked overlapped
InFlight(runs) == {r \in DOMAIN runs : runs[r].phase \in {"import", "idle"}}

MarkOverlapped(runs, run) ==
    [r \in DOMAIN runs |->
        IF InFlight(runs) # {} /\ (r = run \/ r \in InFlight(runs))
        THEN [runs[r] EXCEPT !.overlapped = TRUE] ELSE runs[r]]

\* case 'init'
ToOnInit(fails) ==
    /\ toIsReady' = (toIsReady \/ ~fails)
    /\ toOut' = toOut \o (IF fails
                          THEN <<Posted("status", 0, "handler"), Posted("error", 0, "handler")>>
                          ELSE <<Posted("status", 0, "handler"), Posted("status", 0, "handler"),
                                 Posted("ready", 0, "handler")>>)
    /\ UNCHANGED <<toPendingTasks, toIdlePromise, toIdleTimer, toTimeouts, toIntervals,
                   toRuns, toWaiters>>

\* case 'run', up to the first suspension of the handler
ToOnRun(run) ==
    LET prog == toRuns[run].prog
        st0 == resetPendingTasks(TimerState)
        runs0 == Orphaned(MarkOverlapped(toRuns, run))
    IN  /\ UNCHANGED toIsReady
        /\ IF ~toIsReady
           THEN /\ toOut' = Append(toOut, Posted("error", run, "handler"))
                /\ toRuns' = [toRuns EXCEPT ![run].phase = "rejected"]
                /\ UNCHANGED <<toPendingTasks, toIdlePromise, toIdleTimer, toTimeouts,
                               toIntervals, toWaiters>>
           ELSE CASE prog.kind = "compileError" ->
                        AfterRunSource(run, [st0 EXCEPT !.threw = TRUE], 0, runs0, <<>>)
                  [] prog.kind = "script" ->
                        AfterRunSource(run, ExecuteBody(prog.body, st0, run, 0), 0, runs0, <<>>)
                  [] prog.kind = "module" ->
                        /\ SetTimerState(st0)
                        /\ toIdlePromise' = 0
                        /\ toRuns' = [runs0 EXCEPT ![run].phase = "import"]
                        /\ toWaiters' = <<>>

\* self.onmessage: the oldest message posted to the worker is handled
ToReceive ==
    /\ toIn # <<>>
    /\ toIn' = Tail(toIn)
    /\ UNCHANGED toInitSent
    /\ LET m == Head(toIn)
       IN  CASE m.type = "init" -> \E fails \in BOOLEAN : ToOnInit(fails)
             [] m.type = "run" -> ToOnRun(m.run)

\* "await import(url)" of executeModule settles: the module's top level has run
ToImportSettles ==
    \E run \in DOMAIN toRuns :
        /\ toRuns[run].phase = "import"
        /\ AfterRunSource(run, ExecuteBody(toRuns[run].prog.body, TimerState, run, toIdlePromise),
                          toIdlePromise, toRuns, toWaiters)
        /\ UNCHANGED <<toIsReady, toIn, toInitSent>>

\* the host fires a timeout registered through the wrapped setTimeout
ToTimeoutFires ==
    \E t \in toTimeouts :
        LET st1 == [TimerState EXCEPT !.timeouts = @ \ {t}]
            st2 == CASE t.cb = "chain2" ->
                            setTimeout(emit(st1, t.run, "timeout"), t.run, "chain", toIdlePromise)
                     [] t.cb = "chain" ->
                            setTimeout(emit(st1, t.run, "timeout"), t.run, "last", toIdlePromise)
                     [] t.cb = "selfClear" ->
                            clearTimeout(emit(st1, t.run, "timeout"), t.run, "selfClear",
                                         toIdlePromise)
                     [] OTHER -> emit(st1, t.run, "timeout")
        IN  /\ SetTimerState(updatePending(st2, -1, toIdlePromise))
            /\ UNCHANGED <<toIsReady, toIdlePromise, toRuns, toWaiters, toIn, toInitSent>>

\* the host fires an interval registered through the wrapped setInterval
ToIntervalTicks ==
    \E i \in toIntervals :
        /\ i.ticks < MaxTicks
        /\ LET ticked == [i EXCEPT !.ticks = @ + 1]
               st1 == emit([TimerState EXCEPT !.intervals = (@ \ {i}) \cup {ticked}],
                           i.run, "interval")
           IN  SetTimerState(IF i.stop THEN clearInterval(st1, ticked, toIdlePromise) ELSE st1)
        /\ UNCHANGED <<toIsReady, toIdlePromise, toRuns, toWaiters, toIn, toInitSent>>

RECURSIVE ResumedDoneTwice(_)
ResumedDoneTwice(waiters) ==
    IF waiters = <<>> THEN <<>>
    ELSE <<Posted("result", Head(waiters), "handler"), Posted("done", Head(waiters), "handler"),
           Posted("done", Head(waiters), "handler")>>
         \o ResumedDoneTwice(Tail(waiters))

\* the result and done of the runs resumed by the resolution of idlePromise
RECURSIVE Resumed(_)
Resumed(waiters) ==
    IF waiters = <<>> THEN <<>>
    ELSE <<Posted("result", Head(waiters), "handler"), Posted("done", Head(waiters), "handler")>>
         \o Resumed(Tail(waiters))

\* the host fires the timer set by scheduleIdleResolve
ToIdleTimerFires ==
    /\ toIdleTimer = "armed"
    /\ IF toPendingTasks = 0 /\ toIdlePromise # 0
       THEN /\ toIdlePromise' = 0
            /\ toIdleTimer' = "null"
            /\ toOut' = toOut \o Resumed(toWaiters)
            /\ toRuns' = [r \in DOMAIN toRuns |->
                            IF toRuns[r].phase = "idle"
                            THEN [toRuns[r] EXCEPT !.phase = "done"] ELSE toRuns[r]]
            /\ toWaiters' = <<>>
       ELSE /\ toIdleTimer' = "stale"
            /\ UNCHANGED <<toIdlePromise, toOut, toRuns, toWaiters>>
    /\ UNCHANGED <<toIsReady, toPendingTasks, toTimeouts, toIntervals, toIn, toInitSent>>

ToWorkerUnchangedButIn ==
    UNCHANGED <<toIsReady, toPendingTasks, toIdlePromise, toIdleTimer, toTimeouts,
                toIntervals, toWaiters, toOut>>

\* the page posts init to the worker
ToSendInit ==
    /\ ~toInitSent
    /\ toInitSent' = TRUE
    /\ toIn' = Append(toIn, [type |-> "init", run |-> 0])
    /\ UNCHANGED toRuns
    /\ ToWorkerUnchangedButIn

\* the page posts a run message with the code prog
ToSendRun(prog) ==
    /\ Len(toRuns) < MaxRuns
    /\ toRuns' = Append(toRuns, [prog |-> prog, phase |-> "sent", overlapped |-> FALSE])
    /\ toIn' = Append(toIn, [type |-> "run", run |-> Len(toRuns) + 1])
    /\ UNCHANGED toInitSent
    /\ ToWorkerUnchangedButIn

InitTsOutputWorker ==
    /\ toIsReady = FALSE
    /\ toPendingTasks = 0
    /\ toIdlePromise = 0
    /\ toIdleTimer = "null"
    /\ toTimeouts = {}
    /\ toIntervals = {}
    /\ toRuns = <<>>
    /\ toWaiters = <<>>
    /\ toIn = <<>>
    /\ toInitSent = FALSE
    /\ toOut = <<>>

----------------------------------------------------------------------------
(* PythonOutput as a batch session.  run() awaits init() when there is no   *)
(* worker, posts a run message and returns a promise that the done or the   *)
(* error message of the worker settles.                                     *)

\* a message of the output worker
PwMsg(type, stream, text, exception, exitCode) ==
    [type |-> type, stream |-> stream, text |-> text,
     exception |-> exception, exitCode |-> exitCode]

PwPlain(type) == PwMsg(type, "", <<>>, <<>>, 0)

\* what runCode(code) does: the fragments the script writes, and whether
\* _run_code returns (with a payload of ResultPayloads) or the call throws
RunOutcomes ==
    [streams : {<<>>, <<[stream |-> "stdout", text |-> <<"a">>]>>},
     throws : BOOLEAN, result : ResultPayloads]

\* a run() call: where it is, the init() it awaits, the call whose promise it
\* returns, and the promise it created itself
\*   phase: "awaitInit", "returned" (a promise was returned), "resolved"
\*          (Promise.resolve() was returned), "rejected" (init() rejected)
Call(phase, init, follows, inner) ==
    [phase |-> phase, init |-> init, follows |-> follows, inner |-> inner]

\* the state of the promise a run() call returned to its caller
CallStatus(c) ==
    CASE pbCalls[c].phase = "awaitInit" -> "pending"
      [] pbCalls[c].phase = "resolved" -> "resolved"
      [] pbCalls[c].phase = "rejected" -> "rejected"
      [] pbCalls[c].phase = "returned" -> pbCalls[pbCalls[c].follows].inner

RunBodyNoGuard(c, calls) ==
    /\ pbIsRunning' = TRUE
    /\ poOutputEl' = TRUE
    /\ poChildren' = <<>>
    /\ poFrags' = <<>>
    /\ pbRunHandles' = c
    /\ pbRunPromise' = c
    /\ pwIn' = Append(pwIn, [type |-> "run", call |-> c])
    /\ pbCalls' = [calls EXCEPT ![c] = Call("returned", @.init, c, "pending")]

\* run(code) from "if (this.isRunning)" on, for call c of calls
RunBody(c, calls) ==
    IF pbIsRunning
    THEN /\ pbCalls' = [calls EXCEPT ![c] =
                          IF pbRunPromise # 0
                          THEN Call("returned", @.init, pbRunPromise, "none")
                          ELSE Call("resolved", @.init, 0, "none")]
         /\ UNCHANGED <<pbIsRunning, pbRunHandles, pbRunPromise, pwIn, poVars>>
    ELSE /\ pbIsRunning' = TRUE
         /\ poOutputEl' = TRUE
         /\ poChildren' = <<>>
         /\ poFrags' = <<>>
         /\ pbRunHandles' = c
         /\ pbRunPromise' = c
         /\ pwIn' = Append(pwIn, [type |-> "run", call |-> c])
         /\ pbCalls' = [calls EXCEPT ![c] = Call("returned", @.init, c, "pending")]

\* PythonOutput.run(code), up to "await this.init()" or to its return; init()
\* is called by run() only
PbRun ==
    /\ Len(pbCalls) < MaxCalls
    /\ IF pbNeedsInit \/ ~pbWorker
       THEN /\ pbNeedsInit' = FALSE
            /\ pbWorker' = TRUE
            /\ pbInits' = Append(pbInits, "pending")
            /\ pwIn' = Append(pwIn, [type |-> "init", call |-> 0])
            /\ pbCalls' = Append(pbCalls, Call("awaitInit", Len(pbInits) + 1, 0, "none"))
            /\ UNCHANGED <<pbIsRunning, pbRunHandles, pbRunPromise, poVars>>
       ELSE /\ RunBody(Len(pbCalls) + 1, Append(pbCalls, Call("start", 0, 0, "none")))
            /\ UNCHANGED <<pbNeedsInit, pbWorker, pbInits>>
    /\ UNCHANGED <<pbIsReady, pbTerminated, pbErrorDuring, pwLoaded, pwLoading, pwOut>>

\* the run() call suspended at "await this.init()" for the init() of the worker
\* in use, or 0
Awaiting ==
    IF \E c \in DOMAIN pbCalls :
            pbCalls[c].phase = "awaitInit" /\ pbCalls[c].init = Len(pbInits)
    THEN CHOOSE c \in DOMAIN pbCalls :
            pbCalls[c].phase = "awaitInit" /\ pbCalls[c].init = Len(pbInits)
    ELSE 0

\* the promise of a run() call is settled through _runResolve or _runReject
Settle(calls, c, how) == IF c = 0 THEN calls ELSE [calls EXCEPT ![c].inner = how]

ErrorDisplayAppended(children, message) ==
    append(append(children, message, "exception"), <<"exit", 1>>, "exit")

\* case 'error': clear(), then the message and the exit line are appended
ErrorDisplay(children, message) ==
    append(append(<<>>, message, "exception"), <<"exit", 1>>, "exit")

\* worker.onmessage of PythonOutput: the oldest message of the worker not yet handled
PbOnMessage ==
    /\ pwOut # <<>>
    /\ pwOut' = Tail(pwOut)
    /\ UNCHANGED <<pbWorker, pbTerminated, pbErrorDuring, pwLoaded, pwLoading>>
    /\ LET m == Head(pwOut)
       IN  CASE m.type = "ready" ->
                    /\ pbIsReady' = TRUE
                    /\ pbNeedsInit' = FALSE
                    /\ pbInits' = [pbInits EXCEPT ![Len(pbInits)] =
                                      IF @ = "pending" THEN "resolved" ELSE @]
                    /\ IF Awaiting # 0 /\ pbInits[Len(pbInits)] = "pending"
                       THEN RunBody(Awaiting, pbCalls)
                       ELSE UNCHANGED <<pbCalls, pbIsRunning, pbRunHandles, pbRunPromise,
                                        pwIn, poVars>>
             [] m.type = "result" ->
                    /\ poOutputEl' = TRUE
                    /\ poChildren' =
                           append(IF m.exception # <<>>
                                  THEN append(EnsureWindowChildren, m.exception, "exception")
                                  ELSE EnsureWindowChildren,
                                  <<"exit", m.exitCode>>, "exit")
                    /\ UNCHANGED <<poFrags, pbIsReady, pbIsRunning, pbNeedsInit, pbRunHandles,
                                   pbRunPromise, pbInits, pbCalls, pwIn>>
             [] m.type = "stream" ->
                    /\ poOutputEl' = TRUE
                    /\ IF m.text = <<>>
                       THEN /\ poChildren' = EnsureWindowChildren
                            /\ UNCHANGED poFrags
                       ELSE /\ poChildren' = appendStream(EnsureWindowChildren, m.text,
                                                          StreamType(m.stream))
                            /\ poFrags' = Append(poFrags, [stream |-> m.stream, text |-> m.text])
                    /\ UNCHANGED <<pbIsReady, pbIsRunning, pbNeedsInit, pbRunHandles,
                                   pbRunPromise, pbInits, pbCalls, pwIn>>
             [] m.type = "error" ->
                    /\ poOutputEl' = TRUE
                    /\ poChildren' = ErrorDisplay(EnsureWindowChildren, m.text)
                    /\ poFrags' = <<>>
                    /\ IF pbIsRunning /\ pbRunHandles # 0
                       THEN /\ pbCalls' = Settle(pbCalls, pbRunHandles, "rejected")
                            /\ pbRunHandles' = 0
                       ELSE UNCHANGED <<pbCalls, pbRunHandles>>
                    /\ pbRunPromise' = 0
                    /\ UNCHANGED <<pbIsReady, pbIsRunning, pbNeedsInit, pbInits, pwIn>>
             [] m.type = "done" ->
                    /\ pbIsRunning' = FALSE
                    /\ pbCalls' = Settle(pbCalls, pbRunHandles, "resolved")
                    /\ pbRunHandles' = 0
                    /\ pbRunPromise' = 0
                    /\ UNCHANGED <<pbIsReady, pbNeedsInit, pbInits, pwIn, poVars>>
             [] OTHER ->
                    UNCHANGED <<pbIsReady, pbIsRunning, pbNeedsInit, pbRunHandles,
                                pbRunPromise, pbInits, pbCalls, pwIn, poVars>>

\* worker.onerror of PythonOutput: an error event of the worker in use
PbOnError ==
    /\ pbWorker
    /\ pbInits' = [pbInits EXCEPT ![Len(pbInits)] = IF @ = "pending" THEN "rejected" ELSE @]
    /\ pbCalls' = IF Awaiting # 0 /\ pbInits[Len(pbInits)] = "pending"
                  THEN [pbCalls EXCEPT ![Awaiting].phase = "rejected"]
                  ELSE pbCalls
    /\ pbErrorDuring' = pbErrorDuring \cup
                           {c \in DOMAIN pbCalls :
                               pbIsReady /\ pbIsRunning /\ pbCalls[c].inner = "pending"}
    /\ UNCHANGED <<pbWorker, pbIsReady, pbIsRunning, pbNeedsInit, pbRunHandles, pbRunPromise,
                   pbTerminated, poVars, pwVars>>

\* PythonOutput.terminate(); the messages of a terminated worker are lost
PbTerminate ==
    /\ pbTerminated < MaxTerminates
    /\ pbTerminated' = pbTerminated + 1
    /\ pbWorker' = FALSE
    /\ pbCalls' = IF pbIsRunning THEN Settle(pbCalls, pbRunHandles, "rejected") ELSE pbCalls
    /\ pbIsReady' = FALSE
    /\ pbIsRunning' = FALSE
    /\ pbNeedsInit' = TRUE
    /\ pbRunHandles' = 0
    /\ pbRunPromise' = 0
    /\ pwLoaded' = FALSE
    /\ pwLoading' = "none"
    /\ pwIn' = <<>>
    /\ pwOut' = <<>>
    /\ UNCHANGED <<pbInits, pbErrorDuring, poVars>>

\* self.onmessage of the output worker: the oldest message posted to it; case
\* 'init' runs loadPyodideInstance up to "await import"
PwReceive ==
    /\ pwIn # <<>>
    /\ pwIn' = Tail(pwIn)
    /\ UNCHANGED <<pbVars, poVars>>
    /\ LET m == Head(pwIn)
       IN  CASE m.type = "init" ->
                    /\ pwLoading' = "import"
                    /\ pwOut' = Append(pwOut, PwPlain("status"))
                    /\ UNCHANGED pwLoaded
             [] m.type = "run" ->
                    /\ UNCHANGED <<pwLoaded, pwLoading>>
                    /\ IF ~pwLoaded
                       THEN pwOut' = Append(pwOut, PwMsg("error", "", <<"n">>, <<>>, 0))
                       ELSE \E o \in RunOutcomes :
                              pwOut' = pwOut
                                \o [k \in 1..Len(o.streams) |->
                                      PwMsg("stream", o.streams[k].stream, o.streams[k].text,
                                            <<>>, 0)]
                                \o <<IF o.throws
                                     THEN PwMsg("error", "", <<"x">>, <<>>, 0)
                                     ELSE PwMsg("result", "", <<>>, o.result.exception,
                                                o.result.exitCode),
                                     PwPlain("done")>>

\* loadPyodideInstance resumes: the import or loadPyodide settles
PwLoadSettles(ok) ==
    /\ pwLoading # "none"
    /\ UNCHANGED <<pbVars, poVars, pwIn>>
    /\ IF ~ok
       THEN /\ pwLoading' = "none"
            /\ pwOut' = Append(pwOut, PwMsg("error", "", <<"l">>, <<>>, 0))
            /\ UNCHANGED pwLoaded
       ELSE IF pwLoading = "import"
       THEN /\ pwLoading' = "load"
            /\ pwOut' = Append(pwOut, PwPlain("status"))
            /\ UNCHANGED pwLoaded
       ELSE /\ pwLoading' = "none"
            /\ pwLoaded' = TRUE
            /\ pwOut' = Append(pwOut, PwPlain("ready"))

InitPyOutput ==
    /\ pbWorker = FALSE
    /\ pbIsReady = FALSE
    /\ pbIsRunning = FALSE
    /\ pbNeedsInit = TRUE
    /\ pbRunHandles = 0
    /\ pbRunPromise = 0
    /\ pbInits = <<>>
    /\ pbCalls = <<>>
    /\ pbTerminated = 0
    /\ pbErrorDuring = {}
    /\ pwLoaded = FALSE
    /\ pwLoading = "none"
    /\ pwIn = <<>>
    /\ pwOut = <<>>

----------------------------------------------------------------------------
(* PythonEditor.  One editor window is open at a time (main.js); each init() *)
(* creates a run button and a status element, and the click handler of the  *)
(* button keeps its own button in its closure while setStatus goes through  *)
(* this.statusEl.                                                           *)

\* const result = onRun(): it returns a promise that is still pending when the
\* handler suspends, returns something that is no thenable, or throws
OnRunOutcomes == {"pending", "returned", "threw"}

\* how a pending promise returned by onRun settles
Settlements == {"resolved", "rejected"}

\* setStatus(status): if (this.statusEl) this.statusEl.textContent = status
setStatus(status, editor, text) ==
    IF editor = 0 THEN status ELSE [status EXCEPT ![editor] = text]

\* init(container, options), called by openEditorWindow, which returns at once
\* while the editor window is open
PeInit(onRun) ==
    /\ peEditor = 0
    /\ Len(peButtons) < MaxEditors
    /\ peButtons' = Append(peButtons, [onRun |-> onRun, disabled |-> ~onRun, text |-> "Run"])
    /\ peStatus' = Append(peStatus, IF onRun THEN "Ready" ELSE "Not ready")
    /\ peEditor' = Len(peButtons) + 1
    /\ peFocused' = FALSE
    /\ UNCHANGED <<peCalls, peClicks>>

RunClickUngated(btn) == btn.onRun

\* if (!onRun || runBtn.disabled) return
RunClickProceeds(btn) == btn.onRun /\ ~btn.disabled

\* try { ... } up to the await
RunStarted(buttons, g) == [buttons EXCEPT ![g].disabled = TRUE, ![g].text = "Running..."]

\* finally { runBtn.disabled = false; runBtn.textContent = 'Run'; ... }
RunFinished(buttons, g) == [buttons EXCEPT ![g].disabled = FALSE, ![g].text = "Run"]

\* the click handler of the run button of the open editor, to its first
\* suspension or, when onRun throws or returns no thenable, to its end
RunClick(outcome) ==
    LET g == peEditor IN
    /\ peClicks < MaxClicks
    /\ peClicks' = peClicks + 1
    /\ IF ~RunClickProceeds(peButtons[g])
       THEN UNCHANGED <<peButtons, peStatus, peCalls>>
       ELSE /\ peCalls' = Append(peCalls, [ed |-> g, state |-> outcome])
            /\ IF outcome = "pending"
               THEN /\ peButtons' = RunStarted(peButtons, g)
                    /\ peStatus' = setStatus(peStatus, peEditor, "Running...")
               ELSE /\ peButtons' = RunFinished(RunStarted(peButtons, g), g)
                    /\ peStatus' = setStatus(setStatus(peStatus, peEditor, "Running..."),
                                             peEditor, "Ready")
    /\ UNCHANGED <<peEditor, peFocused>>

\* runBtn.addEventListener('click', ...): the user clicks the button
PeClick(outcome) ==
    /\ peEditor # 0
    /\ RunClick(outcome)

\* the binding of Command+R and Ctrl+R: when the editor is focused, the
\* handler clicks the button if (onRun && !runBtn.disabled)
PeCommandR(outcome) ==
    /\ peEditor # 0
    /\ peFocused
    /\ RunClick(outcome)

\* the promise awaited by the click handler settles: catch, then finally
PeSettle(c, how) ==
    /\ c \in DOMAIN peCalls
    /\ peCalls[c].state = "pending"
    /\ peCalls' = [peCalls EXCEPT ![c].state = how]
    /\ peButtons' = RunFinished(peButtons, peCalls[c].ed)
    /\ peStatus' = setStatus(peStatus, peEditor, "Ready")
    /\ UNCHANGED <<peEditor, peFocused, peClicks>>

\* destroy(), called by onClose of the editor window
PeDestroy ==
    /\ peEditor # 0
    /\ peEditor' = 0
    /\ peFocused' = FALSE
    /\ UNCHANGED <<peButtons, peStatus, peCalls, peClicks>>

\* the editor gains or loses the focus
PeFocus ==
    /\ peEditor # 0
    /\ peFocused' = ~peFocused
    /\ UNCHANGED <<peEditor, peButtons, peStatus, peCalls, peClicks>>

InitPythonEditor ==
    /\ peEditor = 0
    /\ peButtons = <<>>
    /\ peStatus = <<>>
    /\ peFocused = FALSE
    /\ peCalls = <<>>
    /\ peClicks = 0

----------------------------------------------------------------------------
(* KeyBindings.  A combo string is held as the sequence of its parts, the   *)
(* result of split('+') and trim(); a binding is held with the number of    *)
(* its registration, which stands for its handler.                          *)

\* part.toLowerCase()
ToLowerCase(part) ==
    CASE part = "Command" -> "command"
      [] part = "Ctrl" -> "ctrl"
      [] part = "Shift" -> "shift"
      [] part = "Alt" -> "alt"
      [] part = "R" -> "r"
      [] part = "S" -> "s"
      [] OTHER -> part

\* the loop of normalizeCombo over the lower-cased parts
RECURSIVE NormalizeParts(_, _)
NormalizeParts(parts, normalized) ==
    IF parts = <<>> THEN normalized
    ELSE LET part == ToLowerCase(Head(parts)) IN
         NormalizeParts(Tail(parts),
            IF part \in {"ctrl", "control"} THEN [normalized EXCEPT !.ctrl = TRUE]
            ELSE IF part \in {"cmd", "command", "meta"} THEN [normalized EXCEPT !.meta = TRUE]
            ELSE IF part \in {"alt", "option"} THEN [normalized EXCEPT !.alt = TRUE]
            ELSE IF part = "shift" THEN [normalized EXCEPT !.shift = TRUE]
            ELSE [normalized EXCEPT !.key = part])

normalizeCombo(combo) ==
    NormalizeParts(combo, [key |-> "", ctrl |-> FALSE, meta |-> FALSE, alt |-> FALSE,
                           shift |-> FALSE])

\* static matches(event, combo)
matches(event, combo) ==
    LET key == ToLowerCase(event.key) IN
    IF combo.key # "" /\ combo.key # key THEN FALSE
    ELSE IF combo.ctrl # event.ctrlKey THEN FALSE
    ELSE IF combo.meta # event.metaKey THEN FALSE
    ELSE IF combo.alt # event.altKey THEN FALSE
    ELSE IF combo.shift # event.shiftKey THEN FALSE
    ELSE TRUE

RECURSIVE onKeyDownNoBreak(_, _, _)
onKeyDownNoBreak(bindings, event, focused) ==
    IF bindings = <<>> THEN <<>>
    ELSE LET binding == Head(bindings) IN
         IF binding.when = "focused" /\ ~focused
         THEN onKeyDownNoBreak(Tail(bindings), event, focused)
         ELSE IF \E i \in DOMAIN binding.combos : matches(event, binding.combos[i])
         THEN <<binding.id>> \o onKeyDownNoBreak(Tail(bindings), event, focused)
         ELSE onKeyDownNoBreak(Tail(bindings), event, focused)

\* _onKeyDown(event): the handlers it invokes, in order
RECURSIVE onKeyDown(_, _, _)
onKeyDown(bindings, event, focused) ==
    IF bindings = <<>> THEN <<>>
    ELSE LET binding == Head(bindings) IN
         IF binding.when = "focused" /\ ~focused
         THEN onKeyDown(Tail(bindings), event, focused)
         ELSE IF \E i \in DOMAIN binding.combos : matches(event, binding.combos[i])
         THEN <<binding.id>>
         ELSE onKeyDown(Tail(bindings), event, focused)

\* the combo lists bindings are added with
ComboLists ==
    { << <<"Command", "R">>, <<"Ctrl", "R">> >>,
      << <<"Ctrl", "Shift", "R">> >>,
      << <<"Alt">> >> }

\* when: null, or a predicate that tells whether the editor is focused
Whens == {"none", "focused"}

NoEvent == [key |-> "", ctrlKey |-> FALSE, metaKey |-> FALSE, altKey |-> FALSE,
            shiftKey |-> FALSE]

KeyEvents ==
    [key : {"R", "s"}, ctrlKey : BOOLEAN, metaKey : BOOLEAN, altKey : BOOLEAN,
     shiftKey : BOOLEAN]

\* add(binding)
KbAdd(combo, when) ==
    /\ kbAdded < MaxBindings
    /\ kbBindings' = Append(kbBindings,
            [combos |-> [i \in DOMAIN combo |-> normalizeCombo(combo[i])],
             when |-> when, id |-> kbAdded + 1])
    /\ kbAdded' = kbAdded + 1
    /\ kbEvent' = NoEvent /\ kbInvoked' = <<>>
    /\ UNCHANGED <<kbListening, kbFocused, kbRemoved, kbDestroyed>>

\* removeAll()
KbRemoveAll ==
    /\ kbBindings' = <<>>
    /\ kbRemoved' = 1..kbAdded
    /\ kbEvent' = NoEvent /\ kbInvoked' = <<>>
    /\ UNCHANGED <<kbListening, kbFocused, kbAdded, kbDestroyed>>

\* destroy()
KbDestroy ==
    /\ kbBindings' = <<>>
    /\ kbRemoved' = 1..kbAdded
    /\ kbListening' = FALSE
    /\ kbDestroyed' = TRUE
    /\ kbEvent' = NoEvent /\ kbInvoked' = <<>>
    /\ UNCHANGED <<kbFocused, kbAdded>>

\* the target dispatches a keydown event
KbKeyDown(event) ==
    /\ kbEvent' = event
    /\ kbInvoked' = IF kbListening THEN onKeyDown(kbBindings, event, kbFocused) ELSE <<>>
    /\ UNCHANGED <<kbBindings, kbListening, kbFocused, kbAdded, kbRemoved, kbDestroyed>>

\* what the when predicates look at changes
KbFocus ==
    /\ kbFocused' = ~kbFocused
    /\ kbEvent' = NoEvent /\ kbInvoked' = <<>>
    /\ UNCHANGED <<kbBindings, kbListening, kbAdded, kbRemoved, kbDestroyed>>

\* new KeyBindings(target)
InitKeyBindings ==
    /\ kbBindings = <<>>
    /\ kbListening = TRUE
    /\ kbFocused = FALSE
    /\ kbEvent = NoEvent
    /\ kbInvoked = <<>>
    /\ kbAdded = 0
    /\ kbRemoved = {}
    /\ kbDestroyed = FALSE

----------------------------------------------------------------------------
(* CodeStorage.  A JavaScript value is a record of its type and its text;   *)
(* the localStorage item of the key is absent or holds a string.            *)

Str(text) == [t |-> "string", v |-> text]
Undefined == [t |-> "undefined", v |-> <<"u", "n", "d", "e", "f", "i", "n", "e", "d">>]
Null == [t |-> "null", v |-> <<"n", "u", "l", "l">>]
Num(text) == [t |-> "number", v |-> text]
Bool(b) == [t |-> "boolean", v |-> IF b THEN <<"t", "r", "u", "e">>
                                        ELSE <<"f", "a", "l", "s", "e">>]

\* the strings the editor saves: every text up to MaxTextLen characters
Texts == SeqsUpTo({"a", "b"}, MaxTextLen)

\* what save() is called with
SaveArgs == {Str(x) : x \in Texts} \cup {Undefined, Null, Num(<<"1">>)}

NoItem == [present |-> FALSE, v |-> <<>>]
Item(text) == [present |-> TRUE, v |-> text]

\* localStorage.getItem(this.key)
getItem(item) == IF item.present THEN Str(item.v) ELSE Null

\* load(): what it returns and this.value afterwards
load(value, item) ==
    LET stored == getItem(item) IN
    IF stored = Null THEN [ret |-> Null, value |-> value]
    ELSE [ret |-> stored, value |-> stored.v]

saveUnchecked(value, item, arg) ==
    [ret |-> Str(arg.v), value |-> arg.v, item |-> Item(arg.v)]

\* save(value): what it returns, this.value and the item afterwards
save(value, item, arg) ==
    LET cached == IF arg.t = "string" THEN arg.v ELSE value IN
    [ret |-> Str(cached), value |-> cached, item |-> Item(cached)]

\* has()
has(item) == getItem(item) # Null

\* new CodeStorage(key), on every PythonEditor.init; the item outlives it
CsConstruct ==
    /\ csValue' = <<>>
    /\ csLast' = [op |-> "new", arg |-> Undefined, ret |-> Undefined, cached |-> csValue]
    /\ UNCHANGED csItem

CsLoad ==
    LET r == load(csValue, csItem) IN
    /\ csValue' = r.value
    /\ csLast' = [op |-> "load", arg |-> Undefined, ret |-> r.ret, cached |-> csValue]
    /\ UNCHANGED csItem

CsSave(arg) ==
    LET r == save(csValue, csItem, arg) IN
    /\ csValue' = r.value
    /\ csItem' = r.item
    /\ csLast' = [op |-> "save", arg |-> arg, ret |-> r.ret, cached |-> csValue]

\* clear()
CsClear ==
    /\ csItem' = NoItem
    /\ csValue' = <<>>
    /\ csLast' = [op |-> "clear", arg |-> Undefined, ret |-> Undefined, cached |-> csValue]

CsHas ==
    /\ csLast' = [op |-> "has", arg |-> Undefined,
                  ret |-> Bool(has(csItem)),
                  cached |-> csValue]
    /\ UNCHANGED <<csValue, csItem>>

\* a first CodeStorage on a key that nothing or an earlier page left an item
\* under
InitCodeStorage ==
    /\ csValue = <<>>
    /\ csItem = NoItem
    /\ csLast = [op |-> "new", arg |-> Undefined, ret |-> Undefined, cached |-> <<>>]

----------------------------------------------------------------------------
(* The framer on its own: every source up to MaxSrcLen characters.          *)

InitFramer ==
    /\ frSrc \in SeqsUpTo(FramerAlphabet, MaxSrcLen)
    /\ frScan = ScanInit
    /\ frResult = "unset"

FrCheck ==
    /\ frResult = "unset"
    /\ frScan' = ScanLoop(ScanInit, frSrc)
    /\ frResult' = IF ScanReturn(frScan') THEN "complete" ELSE "incomplete"
    /\ UNCHANGED frSrc

NextFramer == FrCheck /\ UNCHANGED <<poVars, trVars, tcVars, pyVars, pcVars, toVars, pbVars, pwVars,
                 peVars, kbVars, csVars>>

InitFramerSpec == InitFramer /\ InitOutput /\ InitTsRepl /\ InitPyRepl /\ InitTsOutputWorker
    /\ InitPyOutput
    /\ InitPythonEditor /\ InitKeyBindings /\ InitCodeStorage

SpecFramer == InitFramerSpec /\ [][NextFramer]_vars

----------------------------------------------------------------------------
(* The framer one loop iteration at a time, on sources of quotes,           *)
(* backslashes, comment delimiters, newlines and an opening bracket.        *)

ScanAlphabet == {SQ, DQ, BT, BS, NL, "/", "*", "{"}

InitFramerScan ==
    /\ frSrc \in SeqsUpTo(ScanAlphabet, MaxScanLen)
    /\ frScan = ScanInit
    /\ frResult = "unset"

\* one iteration of the loop of isInputComplete
FrIterate ==
    /\ frResult = "unset"
    /\ frScan.i <= Len(frSrc)
    /\ frScan' = ScanStep(frScan, frSrc)
    /\ UNCHANGED <<frSrc, frResult>>

\* the loop has ended: the return statement
FrReturn ==
    /\ frResult = "unset"
    /\ frScan.i > Len(frSrc)
    /\ frResult' = IF ScanReturn(frScan) THEN "complete" ELSE "incomplete"
    /\ UNCHANGED <<frSrc, frScan>>

NextFramerScan ==
    \/ FrIterate /\ UNCHANGED <<poVars, trVars, tcVars, pyVars, pcVars, toVars, pbVars, pwVars,
                 peVars, kbVars, csVars>>
    \/ FrReturn /\ UNCHANGED <<poVars, trVars, tcVars, pyVars, pcVars, toVars, pbVars, pwVars,
                 peVars, kbVars, csVars>>

InitFramerScanSpec == InitFramerScan /\ InitOutput /\ InitTsRepl /\ InitPyRepl
    /\ InitTsOutputWorker /\ InitPyOutput
    /\ InitPythonEditor /\ InitKeyBindings /\ InitCodeStorage

SpecFramerScan == InitFramerScanSpec /\ [][NextFramerScan]_vars

----------------------------------------------------------------------------
(* The output log on its own.                                               *)

FramerIdle ==
    /\ frSrc = <<>>
    /\ frScan = ScanInit
    /\ frResult = "unset"

NotOutput == <<frVars, trVars, tcVars, pyVars, pcVars, toVars, pbVars, pwVars, peVars, kbVars, csVars>>

NextOutput ==
    \/ \E stream \in Streams, text \in StreamTexts :
            PoOnStream(stream, text) /\ UNCHANGED NotOutput
    \/ \E r \in ResultPayloads :
            PoOnResult(r.exception, r.exitCode) /\ UNCHANGED NotOutput
    \/ PoClear /\ UNCHANGED NotOutput

InitOutputSpec == FramerIdle /\ InitOutput /\ InitTsRepl /\ InitPyRepl /\ InitTsOutputWorker
    /\ InitPyOutput
    /\ InitPythonEditor /\ InitKeyBindings /\ InitCodeStorage

SpecOutput == InitOutputSpec /\ [][NextOutput]_vars

----------------------------------------------------------------------------
(* The TypeScript REPL: controller and worker.                              *)

NotTsRepl == <<frVars, poVars, pyVars, pcVars, toVars, pbVars, pwVars, peVars, kbVars, csVars>>

NextTsRepl ==
    \/ TcInit /\ UNCHANGED NotTsRepl
    \/ \E command \in Commands : TcInterpreter(command) /\ UNCHANGED NotTsRepl
    \/ TcCtrlC /\ UNCHANGED NotTsRepl
    \/ TcCompletion /\ UNCHANGED NotTsRepl
    \/ TcOnMessage /\ UNCHANGED NotTsRepl
    \/ TrReceive /\ UNCHANGED <<tcVars, NotTsRepl>>
    \/ TrImportSettles /\ UNCHANGED <<tcVars, NotTsRepl>>

InitTsReplSpec == FramerIdle /\ InitOutput /\ InitTsRepl /\ InitPyRepl /\ InitTsOutputWorker
    /\ InitPyOutput
    /\ InitPythonEditor /\ InitKeyBindings /\ InitCodeStorage

SpecTsRepl == InitTsReplSpec /\ [][NextTsRepl]_vars

----------------------------------------------------------------------------
(* The TypeScript REPL worker on its own: messages are posted to it in any  *)
(* order, also before init, and what it posts is kept in trOut.             *)

NextTsReplWorker ==
    \/ TcInit /\ UNCHANGED NotTsRepl
    \/ \E command \in Commands : TwPostExecute(command) /\ UNCHANGED NotTsRepl
    \/ TwPostInterrupt /\ UNCHANGED NotTsRepl
    \/ TwPostComplete /\ UNCHANGED NotTsRepl
    \/ TrReceive /\ UNCHANGED <<tcVars, NotTsRepl>>
    \/ TrImportSettles /\ UNCHANGED <<tcVars, NotTsRepl>>

SpecTsReplWorker == InitTsReplSpec /\ [][NextTsReplWorker]_vars

----------------------------------------------------------------------------
(* PythonOutput as a batch session, with its worker.                        *)

NotPyOutput == <<frVars, trVars, tcVars, pyVars, pcVars, toVars, peVars, kbVars, csVars>>

NextPyOutput ==
    \/ PbRun /\ UNCHANGED NotPyOutput
    \/ PbOnMessage /\ UNCHANGED NotPyOutput
    \/ PbOnError /\ UNCHANGED NotPyOutput
    \/ PbTerminate /\ UNCHANGED NotPyOutput
    \/ PwReceive /\ UNCHANGED NotPyOutput
    \/ \E ok \in BOOLEAN : PwLoadSettles(ok) /\ UNCHANGED NotPyOutput

InitPyOutputSpec ==
    FramerIdle /\ InitOutput /\ InitTsRepl /\ InitPyRepl /\ InitTsOutputWorker
    /\ InitPyOutput
    /\ InitPythonEditor /\ InitKeyBindings /\ InitCodeStorage

SpecPyOutput == InitPyOutputSpec /\ [][NextPyOutput]_vars

----------------------------------------------------------------------------
(* The Python REPL: controller and worker.                                  *)

NotPyRepl == <<frVars, poVars, trVars, tcVars, toVars, pbVars, pwVars, peVars, kbVars, csVars>>

NextPyRepl ==
    \/ PcInit /\ UNCHANGED NotPyRepl
    \/ \E command \in PyCommands : PcInterpreter(command) /\ UNCHANGED NotPyRepl
    \/ PcCtrlC /\ UNCHANGED NotPyRepl
    \/ PcCompletion /\ UNCHANGED NotPyRepl
    \/ PcOnMessage /\ UNCHANGED NotPyRepl
    \/ PyReceive /\ UNCHANGED <<pcVars, NotPyRepl>>
    \/ PyFutureSettles /\ UNCHANGED <<pcVars, NotPyRepl>>

InitPyReplSpec == FramerIdle /\ InitOutput /\ InitTsRepl /\ InitPyRepl /\ InitTsOutputWorker
    /\ InitPyOutput
    /\ InitPythonEditor /\ InitKeyBindings /\ InitCodeStorage

SpecPyRepl == InitPyReplSpec /\ [][NextPyRepl]_vars

----------------------------------------------------------------------------
(* The TypeScript output worker and the page that posts to it.              *)

NotTsOutput == <<frVars, poVars, trVars, tcVars, pyVars, pcVars, pbVars, pwVars, peVars, kbVars, csVars>>

NextTsOutput ==
    \/ ToSendInit /\ UNCHANGED NotTsOutput
    \/ \E prog \in Programs : ToSendRun(prog) /\ UNCHANGED NotTsOutput
    \/ ToReceive /\ UNCHANGED NotTsOutput
    \/ ToImportSettles /\ UNCHANGED NotTsOutput
    \/ ToTimeoutFires /\ UNCHANGED NotTsOutput
    \/ ToIntervalTicks /\ UNCHANGED NotTsOutput
    \/ ToIdleTimerFires /\ UNCHANGED NotTsOutput

InitTsOutputSpec ==
    FramerIdle /\ InitOutput /\ InitTsRepl /\ InitPyRepl /\ InitTsOutputWorker
    /\ InitPyOutput
    /\ InitPythonEditor /\ InitKeyBindings /\ InitCodeStorage

SpecTsOutput == InitTsOutputSpec /\ [][NextTsOutput]_vars

----------------------------------------------------------------------------
(* The editor on its own *)

NotPythonEditor == <<frVars, poVars, trVars, tcVars, pyVars, pcVars, toVars, pbVars, pwVars,
                    kbVars, csVars>>

NextPythonEditor ==
    \/ \E onRun \in BOOLEAN : PeInit(onRun) /\ UNCHANGED NotPythonEditor
    \/ \E outcome \in OnRunOutcomes : PeClick(outcome) /\ UNCHANGED NotPythonEditor
    \/ \E outcome \in OnRunOutcomes : PeCommandR(outcome) /\ UNCHANGED NotPythonEditor
    \/ \E c \in DOMAIN peCalls, how \in Settlements :
            PeSettle(c, how) /\ UNCHANGED NotPythonEditor
    \/ PeDestroy /\ UNCHANGED NotPythonEditor
    \/ PeFocus /\ UNCHANGED NotPythonEditor

InitPythonEditorSpec ==
    FramerIdle /\ InitOutput /\ InitTsRepl /\ InitPyRepl /\ InitTsOutputWorker
    /\ InitPyOutput
    /\ InitPythonEditor /\ InitKeyBindings /\ InitCodeStorage

SpecPythonEditor == InitPythonEditorSpec /\ [][NextPythonEditor]_vars

----------------------------------------------------------------------------
(* The key bindings on their own *)

NotKeyBindings == <<frVars, poVars, trVars, tcVars, pyVars, pcVars, toVars, pbVars, pwVars,
                   peVars, csVars>>

NextKeyBindings ==
    \/ \E combo \in ComboLists, when \in Whens : KbAdd(combo, when) /\ UNCHANGED NotKeyBindings
    \/ KbRemoveAll /\ UNCHANGED NotKeyBindings
    \/ KbDestroy /\ UNCHANGED NotKeyBindings
    \/ \E event \in KeyEvents : KbKeyDown(event) /\ UNCHANGED NotKeyBindings
    \/ KbFocus /\ UNCHANGED NotKeyBindings

InitKeyBindingsSpec ==
    FramerIdle /\ InitOutput /\ InitTsRepl /\ InitPyRepl /\ InitTsOutputWorker
    /\ InitPyOutput
    /\ InitPythonEditor /\ InitKeyBindings /\ InitCodeStorage

SpecKeyBindings == InitKeyBindingsSpec /\ [][NextKeyBindings]_vars

----------------------------------------------------------------------------
(* The code storage on its own *)

NotCodeStorage == <<frVars, poVars, trVars, tcVars, pyVars, pcVars, toVars, pbVars, pwVars,
                   peVars, kbVars>>

NextCodeStorage ==
    \/ CsConstruct /\ UNCHANGED NotCodeStorage
    \/ CsLoad /\ UNCHANGED NotCodeStorage
    \/ \E arg \in SaveArgs : CsSave(arg) /\ UNCHANGED NotCodeStorage
    \/ CsClear /\ UNCHANGED NotCodeStorage
    \/ CsHas /\ UNCHANGED NotCodeStorage

InitCodeStorageSpec ==
    FramerIdle /\ InitOutput /\ InitTsRepl /\ InitPyRepl /\ InitTsOutputWorker
    /\ InitPyOutput
    /\ InitPythonEditor /\ InitKeyBindings /\ InitCodeStorage

SpecCodeStorage == InitCodeStorageSpec /\ [][NextCodeStorage]_vars

----------------------------------------------------------------------------
(* Properties of the framer *)

FrChecked == frResult # "unset"

Count(source, S) == Cardinality({k \in DOMAIN source : source[k] \in S})

\* C9 as stated: isInputComplete returns true iff at the end of the scan the
\* depth is <= 0 and none of the five literal/comment states, the line comment
\* included, is open.
C9_CompleteIffNothingOpen ==
    FrChecked =>
        ((frResult = "complete") <=>
            (/\ frScan.depth <= 0
             /\ ~frScan.inSingle /\ ~frScan.inDouble /\ ~frScan.inTemplate
             /\ ~frScan.inLineComment /\ ~frScan.inBlockComment))

\* C9 amended: isInputComplete returns true iff at the end of the scan the depth
\* is <= 0 and no string (single, double, template) and no block comment is
\* open; a line comment still open at the end of the buffer does not count.
C9_CompleteIffNoStringOrBlockOpen ==
    FrChecked =>
        ((frResult = "complete") <=>
            (/\ frScan.depth <= 0
             /\ ~frScan.inSingle /\ ~frScan.inDouble /\ ~frScan.inTemplate
             /\ ~frScan.inBlockComment))

\* a buffer that ends inside a line comment and is reported complete
C9_Witness ==
    /\ frSrc = <<"/", "/", "a">>
    /\ frScan.inLineComment
    /\ frResult = "complete"

\* sources whose every character is scanned as code: brackets and characters
\* that open no string and no comment
PlainChars == {"a", NL, "*"}
OnlyCode(source) == \A k \in DOMAIN source : source[k] \in Openers \cup Closers \cup PlainChars

\* C10: the depth is the signed sum (openers minus closers, of any kind, never
\* clamped at zero), so a buffer of code characters is complete exactly when it
\* has at least as many closers as openers, in whatever order and of whatever
\* kinds.
C10_DepthSignedSum ==
    (FrChecked /\ OnlyCode(frSrc)) =>
        /\ frScan.depth = Count(frSrc, Openers) - Count(frSrc, Closers)
        /\ (frResult = "complete") <=> (Count(frSrc, Openers) <= Count(frSrc, Closers))

\* a closer of one kind before an opener of another kind: the depth passes
\* through -1, ends at 0 and the buffer is reported complete
C10_Witness ==
    /\ frSrc = <<"}", "(">>
    /\ frScan.depth = 0
    /\ frResult = "complete"


Quotes == {SQ, DQ, BT}

\* the quote of the string the scanner is in, or "none"
OpenQuote(st) ==
    IF st.inSingle THEN SQ ELSE IF st.inDouble THEN DQ ELSE IF st.inTemplate THEN BT
    ELSE "none"

\* the number of consecutive backslashes right before position k, after start
BackslashesBefore(source, k, start) ==
    CHOOSE n \in 0..(k - start - 1) :
        /\ \A j \in 1..n : source[k - j] = BS
        /\ n = k - start - 1 \/ source[k - n - 1] # BS

\* strings by the parity rule: a string opened at start by quote q ends at the
\* first q preceded by an even number of backslashes; the quote of the string
\* open at the end of source, or "none"
RECURSIVE StringOpenAtEnd(_, _, _, _)
StringOpenAtEnd(source, k, q, start) ==
    IF k > Len(source) THEN q
    ELSE IF q = "none"
    THEN IF source[k] \in Quotes
         THEN StringOpenAtEnd(source, k + 1, source[k], k)
         ELSE StringOpenAtEnd(source, k + 1, "none", 0)
    ELSE IF source[k] = q /\ BackslashesBefore(source, k, start) % 2 = 0
    THEN StringOpenAtEnd(source, k + 1, "none", 0)
    ELSE StringOpenAtEnd(source, k + 1, q, start)

NoSlash(source) == \A k \in DOMAIN source : source[k] # "/"

\* C24: in a buffer without comments, the string open at the end of the scan
\* is the one given by the parity rule (a quote after an odd number of
\* backslashes does not close its string, after an even number it does, and
\* nothing but its quote closes a string, a newline included); the escape
\* flag is set only inside a string, and a buffer that ends inside a string
\* is incomplete.
C24_EscapeRule ==
    (FrChecked /\ NoSlash(frSrc)) =>
        /\ OpenQuote(frScan) = StringOpenAtEnd(frSrc, 1, "none", 0)
        /\ frScan.escaped => OpenQuote(frScan) # "none"
        /\ OpenQuote(frScan) # "none" => frResult = "incomplete"

\* a quote after two backslashes closed its string: the buffer is complete
C24_Witness ==
    /\ frSrc = <<SQ, BS, BS, SQ>>
    /\ OpenQuote(frScan) = "none"
    /\ frResult = "complete"

\* the five states of the scanner besides code
Flags(st) == <<st.inSingle, st.inDouble, st.inTemplate, st.inBlockComment, st.inLineComment>>

InCode(st) == Flags(st) = <<FALSE, FALSE, FALSE, FALSE, FALSE>>

\* C25: at most one of the five states holds at a time; an iteration that
\* begins inside a string or a comment leaves the depth as it is and leaves
\* the state as it is unless the character read ends that state: the
\* unescaped quote of the string, a newline for a line comment, "*" followed
\* by "/" for a block comment; the state after an end is code, where an
\* opening bracket counts again.
C25_StatesExclusive ==
    /\ [](Cardinality({k \in 1..5 : Flags(frScan)[k]}) <= 1)
    /\ [][(frScan' # frScan /\ ~InCode(frScan)) =>
            LET char == frSrc[frScan.i]
                ends == \/ /\ OpenQuote(frScan) # "none"
                           /\ char = OpenQuote(frScan) /\ ~frScan.escaped
                        \/ frScan.inLineComment /\ char = NL
                        \/ /\ frScan.inBlockComment
                           /\ char = "*" /\ NextChar(frSrc, frScan.i) = "/"
            IN  /\ frScan'.depth = frScan.depth
                /\ IF ends THEN InCode(frScan') ELSE Flags(frScan') = Flags(frScan)]_vars
    /\ [][(frScan' # frScan /\ InCode(frScan) /\ InCode(frScan')
           /\ frSrc[frScan.i] = "{") => frScan'.depth = frScan.depth + 1]_vars

\* a line comment held a bracket, which was not counted, and ended at the
\* newline
C25_Witness ==
    /\ frSrc = <<"/", "/", "{", NL>>
    /\ FrChecked /\ frScan.depth = 0 /\ InCode(frScan)

----------------------------------------------------------------------------
(* Properties of the output log *)

\* fragments grouped into maximal runs of equal stream, each run's texts
\* concatenated in arrival order
RECURSIVE Runs(_)
Runs(frags) ==
    IF frags = <<>> THEN <<>>
    ELSE LET before == Runs(SubSeq(frags, 1, Len(frags) - 1))
             f == frags[Len(frags)]
             n == Len(before)
         IN  IF n > 0 /\ before[n].stream = f.stream
             THEN [before EXCEPT ![n].text = @ \o f.text]
             ELSE Append(before, f)

\* the fragments with every carriage return removed from their texts
WithoutCR(frags) ==
    [k \in DOMAIN frags |-> [stream |-> frags[k].stream, text |-> StripCR(frags[k].text)]]

OnlyChunks == \A k \in DOMAIN poChildren : poChildren[k].chunk

Displayed == [k \in DOMAIN poChildren |->
                 [stream |-> poChildren[k].type, text |-> poChildren[k].text]]

\* C8 as stated: the displayed chunks are the fragments received since the
\* clear, grouped into maximal runs of equal stream, each chunk holding the
\* concatenation of its run's texts.
C8_ChunksAreRuns ==
    (poOutputEl /\ OnlyChunks) => Displayed = Runs(poFrags)

\* C8 amended: the displayed chunks are the fragments grouped into maximal runs
\* of equal stream, each chunk holding the concatenation, in arrival order, of
\* its run's texts with every carriage return removed.
C8_ChunksAreRunsWithoutCR ==
    (poOutputEl /\ OnlyChunks) => Displayed = Runs(WithoutCR(poFrags))

\* stdout a, stderr b, stdout c: three chunks in that order
C8_Witness ==
    /\ poFrags = <<[stream |-> "stdout", text |-> <<"a">>],
                   [stream |-> "stderr", text |-> <<"b">>],
                   [stream |-> "stdout", text |-> <<"c">>]>>
    /\ poChildren = <<Chunk("stdout", <<"a">>), Chunk("stderr", <<"b">>),
                      Chunk("stdout", <<"c">>)>>

----------------------------------------------------------------------------
(* Properties of the TypeScript REPL *)

\* the worker handles the oldest message posted to it, of the given type
TrHandles(type) == trIn # <<>> /\ Head(trIn).type = type /\ trIn' = Tail(trIn)

\* C3: an execute message handled while busy is true posts nothing, leaves
\* buffer, busy and the execute in flight as they are, and is kept nowhere: no
\* message is ever posted for it.
C3_BusyExecuteIsNoOp ==
    /\ [][(TrHandles("execute") /\ trBusy) =>
             /\ trOut' = trOut
             /\ trBuffer' = trBuffer
             /\ trBusy' = trBusy
             /\ trFlight' = trFlight]_vars
    /\ [](\A k \in DOMAIN trOut : trOut[k].of \notin trRejected)

\* an execute was handled while another one was in flight, which is still in flight
C3_Witness == trRejected # {} /\ trBusy /\ trFlight.id \notin trRejected

\* C6: handling an interrupt empties buffer and posts the primary prompt and
\* then interrupted; from then on, also after an execute that was in flight has
\* finished, buffer is empty and the last prompt posted is the primary one, until
\* the next execute is accepted.
C6_InterruptResets ==
    /\ [][TrHandles("interrupt") =>
             /\ trBuffer' = <<>>
             /\ trOut' = trOut \o <<Msg("prompt", DEFAULT_PROMPT, 0),
                                    Msg("interrupted", <<>>, 0)>>]_vars
    /\ [](trAfterIntr => (trBuffer = <<>> /\ trLastPrompt = DEFAULT_PROMPT))

\* an interrupt was handled while an execute was in flight, and that execute
\* has finished since: its done follows the interrupted message
C6_Witness ==
    /\ trAfterIntr /\ ~trBusy
    /\ \E i, j \in DOMAIN trOut :
          i < j /\ trOut[i].type = "interrupted" /\ trOut[j].type = "done"

\* C7: nothing the terminal shows (output, error, prompt) comes from an execute
\* that was in flight when the controller sent interrupt.
C7_SupersededOutputDiscarded == \A x \in tcShown : ~x.late

\* the messages a step of the worker posts
NewPosts == SubSeq(trOut', Len(trOut) + 1, Len(trOut'))

\* an execute is handled while busy is false
TrAccepts == TrHandles("execute") /\ ~trBusy

\* the commands in parts joined by newlines
RECURSIVE JoinAll(_)
JoinAll(parts) ==
    IF parts = <<>> THEN <<>>
    ELSE IF Len(parts) = 1 THEN parts[1]
    ELSE JoinAll(SubSeq(parts, 1, Len(parts) - 1)) \o <<NL>> \o parts[Len(parts)]

\* the depth of brackets after source, starting at depth d; -1 once a closer
\* has no opener before it
RECURSIVE Nesting(_, _)
Nesting(source, d) ==
    IF source = <<>> \/ d < 0 THEN d
    ELSE Nesting(Tail(source),
                 IF Head(source) \in Openers THEN d + 1
                 ELSE IF Head(source) \in Closers THEN d - 1 ELSE d)

\* source, made of brackets and plain code, is a balanced unit
Balanced(source) == OnlyCode(source) /\ Nesting(source, 0) = 0

\* the step reports the execute it handles incomplete: the continuation prompt
\* and done are all it posts, and no execution begins
ReportsIncomplete ==
    /\ NewPosts = <<Msg("prompt", CONTINUATION_PROMPT, Head(trIn).id),
                    Msg("done", <<>>, Head(trIn).id)>>
    /\ trFlight' = trFlight
    /\ ~trBusy'

\* the step executes unit for the execute it handles: either the execution is
\* left in flight with the unit, or it has ended with the primary prompt and done
ExecutesUnit(unit) ==
    /\ JoinBuffer(trBuffer, Head(trIn).command) = unit
    /\ \/ trFlight' = [trFlight' EXCEPT !.id = Head(trIn).id] /\ trBusy' /\ trBuffer' = unit
          /\ NewPosts = <<>>
       \/ /\ trFlight' = trFlight /\ ~trBusy' /\ trBuffer' = <<>>
          /\ Len(NewPosts) >= 2
          /\ NewPosts[Len(NewPosts) - 1] = Msg("prompt", DEFAULT_PROMPT, Head(trIn).id)
          /\ NewPosts[Len(NewPosts)] = Msg("done", <<>>, Head(trIn).id)

\* C11 as stated: for any sequence of submissions whose newline-joined
\* concatenation is a balanced unit, the execute for a proper prefix of the
\* sequence is reported incomplete; so no accepted execute is executed when
\* one more submission gives a balanced unit.
C11_PrefixesReportedIncomplete ==
    [][TrAccepts =>
         LET parts == Append(trParts, Head(trIn).command)
         IN  (\E c \in Commands : Balanced(JoinAll(Append(parts, c))))
             => ReportsIncomplete]_vars

\* C11: of the submissions accepted since buffer was last emptied, each one
\* that leaves the newline-joined text incomplete for the framer is reported
\* incomplete (continuation prompt, done, nothing executed, the text kept in
\* buffer), and the first one that makes the text complete executes the whole
\* text, once: nothing accumulated so far was complete.
C11_UnitAccumulated ==
    /\ [][TrAccepts =>
             LET unit == JoinAll(Append(trParts, Head(trIn).command))
             IN  IF isInputComplete(unit)
                 THEN ExecutesUnit(unit)
                 ELSE ReportsIncomplete /\ trBuffer' = unit]_vars
    /\ [](~trBusy => trBuffer = JoinAll(trParts))
    /\ [](\A k \in 1..Len(trParts) : ~isInputComplete(JoinAll(SubSeq(trParts, 1, k))))

\* an opening bracket and a plain line were reported incomplete, and the
\* unit completed by the closing bracket is being executed
C11_Witness ==
    /\ trBusy /\ trParts = <<>>
    /\ trBuffer = <<"{", NL, "a", NL, "}">>

\* C12: an execute whose complete buffer fails to compile posts one error, then
\* the primary prompt, then done, and leaves buffer empty and busy false.
C12_CompileErrorRecovers ==
    [][(TrAccepts /\ \E k \in DOMAIN NewPosts :
                        NewPosts[k] = Msg("error", <<"c">>, Head(trIn).id))
       => /\ NewPosts = <<Msg("error", <<"c">>, Head(trIn).id),
                          Msg("prompt", DEFAULT_PROMPT, Head(trIn).id),
                          Msg("done", <<>>, Head(trIn).id)>>
          /\ trBuffer' = <<>>
          /\ ~trBusy']_vars

\* a compile error was posted for an execute, and a later execute was accepted
C12_Witness ==
    \E i, j \in DOMAIN trOut :
        /\ trOut[i] = Msg("error", <<"c">>, trOut[i].of)
        /\ trOut[j].type = "prompt" /\ trOut[j].of > trOut[i].of

\* C13: whenever busy is false, buffer is non-empty exactly when the prompt
\* posted last is the continuation prompt.
C13_BufferIffContinuation ==
    ~trBusy => (trBuffer # <<>> <=> trLastPrompt = CONTINUATION_PROMPT)

\* an interrupt was handled while the continuation prompt was the last one,
\* and a new unit has been begun since
C13_Witness ==
    /\ ~trBusy /\ trBuffer # <<>>
    /\ \E k \in DOMAIN trOut : trOut[k].type = "interrupted"

\* C19: a complete message handled in any state posts one completions message
\* with an empty list and leaves buffer and busy as they are.
C19_CompleteIsStateless ==
    [][TrHandles("complete") =>
         /\ NewPosts = <<Msg("completions", <<>>, 0)>>
         /\ trBuffer' = trBuffer
         /\ trBusy' = trBusy]_vars

\* complete was answered before init and again while an execute is in flight
C19_Witness ==
    /\ trBusy /\ trBuffer # <<>>
    /\ trOut # <<>> /\ trOut[1].type = "completions"
    /\ trOut[Len(trOut)].type = "completions"
    /\ \E k \in DOMAIN trOut : trOut[k].type = "ready"

\* C22: the source handed to execution by an accepted execute is the newline
\* join, in order, of the commands accepted since buffer was last emptied,
\* the one being handled included; while that join is incomplete nothing is
\* handed over and buffer holds the join, which is the command itself when
\* buffer was empty.
C22_UnitIsJoinOfAccepted ==
    [][TrAccepts =>
         LET command == Head(trIn).command
             unit == JoinAll(Append(trParts, command))
         IN  /\ IF isInputComplete(unit)
                THEN trUnit' = unit
                ELSE trUnit' = trUnit /\ trBuffer' = unit
             /\ (trBuffer = <<>> /\ ~isInputComplete(command)) => trBuffer' = command]_vars

\* an opening bracket was stored, and the unit executed with the closing
\* bracket is the two joined by a newline
C22_Witness ==
    /\ ~trBusy /\ trBuffer = <<>>
    /\ trUnit = <<"{", NL, "}">>

\* C23: an accepted execute whose accumulated buffer is incomplete posts the
\* continuation prompt first and no error and no output, hands nothing to
\* execution, keeps the accumulated text in buffer and ends with busy false.
C23_IncompleteKeepsBuffer ==
    [][(TrAccepts /\ ~isInputComplete(JoinBuffer(trBuffer, Head(trIn).command))) =>
         /\ NewPosts # <<>>
         /\ NewPosts[1] = Msg("prompt", CONTINUATION_PROMPT, Head(trIn).id)
         /\ \A k \in DOMAIN NewPosts : NewPosts[k].type \notin {"error", "output"}
         /\ trUnit' = trUnit /\ trFlight' = trFlight
         /\ trBuffer' = JoinBuffer(trBuffer, Head(trIn).command)
         /\ ~trBusy']_vars

\* two opening brackets were submitted one after the other: both are kept
C23_Witness ==
    /\ ~trBusy /\ trBuffer = <<"{", NL, "{">>
    /\ trLastPrompt = CONTINUATION_PROMPT

\* C33: an accepted execute makes the handler post exactly one done, as the
\* last message of the cycle and with busy false: in the step that accepts it,
\* or, for a module, in the step in which its import settles; no message of
\* an execute follows its done.
C33_OneDoneLast ==
    /\ [][TrAccepts =>
            \/ NewPosts = <<>> /\ trBusy' /\ trFlight'.id = Head(trIn).id
            \/ /\ NewPosts # <<>> /\ ~trBusy'
               /\ NewPosts[Len(NewPosts)] = Msg("done", <<>>, Head(trIn).id)]_vars
    /\ [][(trBusy /\ ~trBusy') =>
            /\ NewPosts # <<>>
            /\ NewPosts[Len(NewPosts)] = Msg("done", <<>>, trFlight.id)]_vars
    /\ [](\A i, j \in DOMAIN trOut :
            (i # j /\ trOut[i].type = "done") =>
                /\ trOut[j].of = trOut[i].of => j < i
                /\ trOut[j].type = "done" => trOut[j].of # trOut[i].of)

\* an incomplete execute, an execute that failed and a module whose import
\* settled have each posted their done
C33_Witness ==
    /\ ~trBusy
    /\ \E i, j, k \in DOMAIN trOut :
          /\ i < j /\ j < k
          /\ trOut[i].type = "done" /\ trOut[j].type = "done" /\ trOut[k].type = "done"
          /\ \E e \in DOMAIN trOut : trOut[e].type = "error" /\ trOut[e].of = trOut[j].of
          /\ \E c \in DOMAIN trOut :
                trOut[c] = Msg("prompt", CONTINUATION_PROMPT, trOut[i].of)

\* C36: whenever the terminal accepts input the worker is not busy, and no
\* execute sent by the controller is dropped by the busy guard.
C36_ControllerAndWorkerInStep ==
    /\ (tcTerm /\ ~tcPaused) => ~trBusy
    /\ trRejected = {}

----------------------------------------------------------------------------
(* Properties of the Python REPL *)

\* C5: while one execute is suspended with its done not yet posted, no line of
\* another execute is pushed to the console.
C5_OneExecuteInFlight == pyInterleaved = {}

\* the messages a step of the Python REPL worker posts
NewPyPosts == SubSeq(pyOut', Len(pyOut) + 1, Len(pyOut'))

\* C16: once a line of an execute has raised a runtime error, no later line of
\* that execute is pushed to the console: the handler, which posts a prompt
\* for every line it pushes, posts no prompt after the error.
C16_RestAbandonedOnError ==
    [][\A k, j \in DOMAIN NewPyPosts :
          (k < j /\ NewPyPosts[k].type = "error" /\ NewPyPosts[k].arg = <<"p">>)
          => NewPyPosts[j].type # "prompt"]_vars

\* nothing is left to happen in the Python REPL: every message has been
\* handled and no execute is suspended
PyQuiescent == pyIn = <<>> /\ pyOut = <<>> /\ pyFlight = {}

\* C20: every execute sent by the controller is followed by the terminal being
\* resumed: once nothing is left to happen, the terminal is not paused.
C20_TerminalResumed == PyQuiescent => ~pcPaused

\* the controller handles a message of the given type
PcHandles(type) == pyOut # <<>> /\ Head(pyOut).type = type /\ pyOut' = Tail(pyOut)

\* C32: once the controller has handled interrupted, the console buffer of
\* the worker is empty and the terminal prompt and currentPrompt are both the
\* primary prompt.
C32_InterruptResetsPrompt ==
    [][(PcHandles("interrupted") /\ pcTerm) =>
         /\ pyConsole' = <<>>
         /\ pcPrompt' = PS1
         /\ pcCurrentPrompt' = PS1]_vars

----------------------------------------------------------------------------
(* Properties of the TypeScript output worker *)

Positions == 1..Len(toOut)

\* the top-level code of run registers a one-shot timeout whose callback writes output
SchedulesCallback(run) ==
    \E k \in 1..Len(toRuns[run].prog.body) : toRuns[run].prog.body[k] = "timeoutLog"

\* C1: for a run whose top-level code schedules a one-shot timeout callback
\* that writes output, neither the result nor the done of that run is posted
\* before the stream message of that callback.
C1_CallbackStreamBeforeResultAndDone ==
    \A i, j \in Positions :
        (/\ i < j
         /\ toOut[j].type = "stream" /\ toOut[j].by = "timeout"
         /\ SchedulesCallback(toOut[j].run)
         /\ toOut[i].run = toOut[j].run)
        => toOut[i].type \notin {"result", "done"}

\* C2: done is the last message of a run cycle: after the done of a run no
\* stream, result or error caused by that run is posted.
C2_DoneIsLast ==
    \A i, j \in Positions :
        (i < j /\ toOut[i].type = "done" /\ toOut[j].run = toOut[i].run)
        => toOut[j].type \notin {"stream", "result", "error"}

\* nothing is left to happen in the worker: no message to handle, no import
\* pending, no timeout or interval registered, no idle timer due
Quiescent ==
    /\ toIn = <<>>
    /\ toTimeouts = {} /\ toIntervals = {}
    /\ toIdleTimer # "armed"
    /\ \A r \in DOMAIN toRuns : toRuns[r].phase # "import"

HasPosted(run, type) == \E i \in Positions : toOut[i].run = run /\ toOut[i].type = type

\* C4: a run that the initialized worker began to handle posts its own result
\* or error and its own done, also when another run message is received while
\* it is in flight: once nothing is left to happen, both have been posted.
C4_EveryRunPostsDone ==
    Quiescent =>
        \A r \in DOMAIN toRuns :
            toRuns[r].phase \notin {"sent", "rejected"}
            => /\ HasPosted(r, "done")
               /\ HasPosted(r, "result") \/ HasPosted(r, "error")

\* the messages a step of the output worker posts
NewToPosts == SubSeq(toOut', Len(toOut) + 1, Len(toOut'))

\* the handler of run r has begun: it has called resetPendingTasks
Started(r) == toRuns[r].phase \notin {"sent", "rejected"}

\* C26: the idle timer is pending only while the pending count is zero and a
\* run waits for idle; a registration that leaves the count positive while
\* the idle timer is pending cancels it; and idle is declared (the result of
\* the waiting runs is posted) only by a pending idle timer that fires while
\* the count is zero.
C26_IdleDebounce ==
    /\ [](toIdleTimer = "armed" => (toPendingTasks = 0 /\ toIdlePromise # 0))
    /\ [][(toIdleTimer = "armed" /\ (toTimeouts' # {} \/ toIntervals' # {}))
          => (toIdleTimer' = "null" /\ toPendingTasks' > 0)]_vars
    /\ [][(\E k \in DOMAIN NewToPosts : NewToPosts[k].type = "result")
          => (toIdleTimer = "armed" /\ toPendingTasks = 0 /\ toPendingTasks' = 0)]_vars

\* a run without timers waited for idle with the idle timer pending, and the
\* top level of an earlier-imported module of the next run registered a
\* timeout: the idle timer is cancelled while the first run still waits
C26_Witness ==
    /\ Len(toRuns) = 2
    /\ toRuns[1].prog.body = <<>> /\ toRuns[1].phase = "idle"
    /\ toIdlePromise = 1 /\ toIdleTimer = "null"
    /\ \E t \in toTimeouts : t.run = 2

ResetAtStart ==
    \A r \in DOMAIN toRuns :
        (toRuns[r].phase = "sent" /\ toRuns'[r].phase = "import")
        => /\ toPendingTasks' = 0
           /\ toTimeouts' = {} /\ toIntervals' = {}
           /\ toIdleTimer' = "null" /\ toIdlePromise' = 0

\* C28: at the start of every run the count is zero, the registries are empty
\* and no idle timer or idle wait is pending, and no timeout or interval
\* callback of a run fires once the handler of a later run has begun.
C28_RegistryReset ==
    /\ [][ResetAtStart]_vars
    /\ [][\A k \in DOMAIN NewToPosts :
            NewToPosts[k].by \in {"timeout", "interval"}
            => \A r \in DOMAIN toRuns : r > NewToPosts[k].run => ~Started(r)]_vars

\* a timeout callback that registers another timeout runs in this step
ChainStep ==
    \E t \in toTimeouts :
        /\ t.cb \in {"chain2", "chain"}
        /\ t \notin toTimeouts'
        /\ NewToPosts = <<Posted("stream", t.run, "timeout")>>

\* the top-level code of run registers a timeout whose callback registers another
SchedulesChain(run) ==
    \E k \in 1..Len(toRuns[run].prog.body) :
        toRuns[run].prog.body[k] \in {"timeoutChain", "timeoutChain2"}

\* a callback that registers another timeout leaves the count positive and
\* no idle timer pending
ChainKeepsPending == [][ChainStep => (toPendingTasks' >= 1 /\ toIdleTimer' # "armed")]_vars

\* C29: a timeout callback that registers another timeout leaves the count
\* positive, so no debounce window starts between the two; and the result and
\* the done of a run whose code starts a chain are posted only after the last
\* callback of the chain has fired.
C29_ChainsHoldResult ==
    /\ ChainKeepsPending
    /\ [](\A i, j \in Positions :
            (/\ i < j
             /\ toOut[j].type = "stream" /\ toOut[j].by = "timeout"
             /\ SchedulesChain(toOut[j].run)
             /\ toOut[i].run = toOut[j].run)
            => toOut[i].type \notin {"result", "done"})

\* C34: while an interval that its code never clears is registered, the
\* pending count is above zero, no idle timer is pending, and neither result
\* nor done has been posted for the run that registered it.
C34_IntervalHoldsRun ==
    \A i \in toIntervals :
        ~i.stop =>
            /\ toPendingTasks > 0
            /\ toIdleTimer # "armed"
            /\ ~HasPosted(i.run, "result") /\ ~HasPosted(i.run, "done")

\* a run that registered an interval waits for idle, and the interval has
\* ticked
C34_Witness ==
    \E i \in toIntervals :
        /\ ~i.stop /\ i.ticks = MaxTicks
        /\ toRuns[i.run].phase = "idle" /\ toIdlePromise = i.run

\* how many messages of the given type were posted for run
Posts(run, type) ==
    Cardinality({i \in Positions : toOut[i].run = run /\ toOut[i].type = type})

----------------------------------------------------------------------------
(* Properties of PythonOutput as a batch session *)

\* PythonOutput handles a message of the given type from its worker
PbHandles(type) ==
    /\ pwOut # <<>> /\ Head(pwOut).type = type /\ pwOut' = Tail(pwOut)
    /\ pbTerminated' = pbTerminated

\* C14: when the worker posts an error before ready (loading the runtime
\* failed), the promise of init() is rejected: it does not stay pending once
\* the error message has been handled.
C14_InitRejectedOnError ==
    [][(/\ PbHandles("error") /\ Head(pwOut).text = <<"l">>
        /\ ~pbIsReady /\ pbInits[Len(pbInits)] = "pending")
       => pbInits'[Len(pbInits)] = "rejected"]_vars

\* C15: a run() call that was in flight when worker.onerror fired has its
\* promise rejected, not left pending.
C15_RunRejectedOnWorkerError ==
    \A c \in pbErrorDuring : CallStatus(c) = "rejected"

\* a run message is posted to the worker in this step
RunPosted ==
    /\ Len(pwIn') = Len(pwIn) + 1
    /\ pwIn'[Len(pwIn')].type = "run"

\* C18: a run message is posted to the worker only after the ready message of
\* that worker has been received.
C18_RunOnlyWhenReady == [][RunPosted => pbIsReady]_vars

\* C17: terminate() called in any state leaves worker null, isRunning and
\* isReady false and the stored handles cleared, and no promise returned by
\* run() that was pending is left pending: it is rejected.
C17_TerminateSettlesRuns ==
    [][pbTerminated' # pbTerminated =>
         /\ ~pbWorker' /\ ~pbIsRunning' /\ ~pbIsReady'
         /\ pbRunHandles' = 0
         /\ \A c \in DOMAIN pbCalls :
               CallStatus(c) = "pending" => CallStatus(c)' = "rejected"]_vars

\* C21: after terminate() the session stays terminated: it has no worker, no
\* message is on its way to a worker, and it is neither ready nor running.
C21_TerminatedIsSink ==
    pbTerminated > 0 =>
        /\ ~pbWorker /\ pwIn = <<>> /\ pwLoading = "none"
        /\ ~pbIsReady /\ ~pbIsRunning

\* run() is called in this step
PbRunCalled == Len(pbCalls') = Len(pbCalls) + 1

\* a run() call made while isRunning is true changes nothing of the run in
\* flight: no message is posted, the display, the handles and the stored
\* promise stay as they are
BusyRunIsNoOp ==
    /\ pwIn' = pwIn
    /\ poOutputEl' = poOutputEl /\ poChildren' = poChildren /\ poFrags' = poFrags
    /\ pbRunHandles' = pbRunHandles /\ pbRunPromise' = pbRunPromise
    /\ pbIsRunning'
    /\ \A c \in DOMAIN pbCalls : pbCalls'[c] = pbCalls[c]

\* C30 as stated: run() called while isRunning is true is a no-op on the run
\* in flight and returns the promise of that run; taken here on a worker that
\* is ready, where the run message of the run in flight was posted after ready.
C30_BusyRunReturnsRunInFlight ==
    [][(PbRunCalled /\ pbIsRunning /\ pbIsReady) =>
         /\ BusyRunIsNoOp
         /\ pbRunPromise # 0
         /\ pbCalls'[Len(pbCalls')] = Call("returned", 0, pbRunPromise, "none")]_vars

\* C30: run() called while isRunning is true is a no-op on the run in flight;
\* it returns the stored promise of that run when there is one, and an
\* already resolved promise when an error message has cleared the stored
\* promise and done has not been handled yet.
C30_BusyRunIsNoOp ==
    [][(PbRunCalled /\ pbIsRunning) =>
         /\ BusyRunIsNoOp
         /\ pbCalls'[Len(pbCalls')] =
                IF pbRunPromise # 0
                THEN Call("returned", 0, pbRunPromise, "none")
                ELSE Call("resolved", 0, 0, "none")]_vars

\* a run() call made while a run was in flight on a ready worker shares the
\* promise of that run, which is still pending
C30_Witness ==
    /\ pbIsReady /\ pbIsRunning
    /\ \E c \in DOMAIN pbCalls :
          /\ pbCalls[c].phase = "returned" /\ pbCalls[c].init = 0
          /\ pbCalls[c].follows < c
          /\ CallStatus(c) = "pending"

\* no message is on its way between PythonOutput and its worker, and the
\* worker is not loading
PbQuiescent == pwIn = <<>> /\ pwOut = <<>> /\ pwLoading = "none"

\* C31: once a run cycle has ended, with done or with a terminal error of the
\* worker, isRunning is false: when nothing is left to arrive, PythonOutput
\* is not running.
C31_ReadyAfterCycle == PbQuiescent => ~pbIsRunning

\* C37: handling an error message leaves on display exactly the message and
\* the exit line, whatever was shown before, rejects the promise of the run in
\* flight, clears the stored handles and promise, and leaves isRunning as it is.
C37_ErrorReplacesDisplay ==
    [][PbHandles("error") =>
         /\ poChildren' = <<Line("exception", Head(pwOut).text), Line("exit", <<"exit", 1>>)>>
         /\ poFrags' = <<>>
         /\ pbIsRunning' = pbIsRunning
         /\ (pbIsRunning /\ pbRunHandles # 0) =>
                (pbCalls'[pbRunHandles].inner = "rejected" /\ pbRunHandles' = 0)
         /\ pbRunPromise' = 0]_vars

\* the run of a ready worker threw: its error is all the display shows, its
\* promise is rejected and isRunning is still true, done being on its way
C37_Witness ==
    /\ pbIsReady /\ pbIsRunning
    /\ poChildren = <<Line("exception", <<"x">>), Line("exit", <<"exit", 1>>)>>
    /\ pwOut # <<>> /\ Head(pwOut).type = "done"
    /\ \E c \in DOMAIN pbCalls : pbCalls[c].inner = "rejected"

----------------------------------------------------------------------------
(* Properties of PythonEditor *)

\* the onRun calls of editor g whose promise has not settled
PendingRuns(g) == {c \in DOMAIN peCalls : peCalls[c].ed = g /\ peCalls[c].state = "pending"}

\* the button of every editor is disabled exactly while an onRun call of that
\* editor is in flight, and at most one is
RunGating ==
    \A g \in DOMAIN peButtons :
        /\ Cardinality(PendingRuns(g)) <= 1
        /\ peButtons[g].onRun => (peButtons[g].disabled <=> PendingRuns(g) # {})

\* in this step the click handler that made call c runs its finally block
RunEnds(c) ==
    \/ c \in DOMAIN peCalls /\ peCalls[c].state = "pending" /\ peCalls'[c].state # "pending"
    \/ c \notin DOMAIN peCalls /\ peCalls'[c].state # "pending"

\* C38 as stated: the run button is disabled from the start of a run until
\* the promise of onRun settles, at most one onRun call is in flight per
\* editor, and when onRun resolves, rejects or throws the button of that
\* editor is enabled again and its status reads 'Ready'.
C38_RunGatingAndReady ==
    /\ []RunGating
    /\ [][\A c \in DOMAIN peCalls' :
            RunEnds(c) =>
                /\ ~peButtons'[peCalls'[c].ed].disabled
                /\ peButtons'[peCalls'[c].ed].text = "Run"
                /\ peStatus'[peCalls'[c].ed] = "Ready"]_vars

\* C38, amended: the same gating; when onRun resolves, rejects or throws the
\* button of that editor is enabled again, and 'Ready' is written to the
\* status element PythonEditor holds at that moment: that of the editor if it
\* is still open, that of a later editor if one was opened, none after
\* destroy().
C38_RunGatingAndReadyIfOpen ==
    /\ []RunGating
    /\ [][\A c \in DOMAIN peCalls' :
            RunEnds(c) =>
                /\ ~peButtons'[peCalls'[c].ed].disabled
                /\ peButtons'[peCalls'[c].ed].text = "Run"
                /\ peEditor # 0 => peStatus'[peEditor] = "Ready"
                /\ \A g \in DOMAIN peStatus : g # peEditor => peStatus'[g] = peStatus[g]]_vars

\* one editor has seen onRun throw, resolve and reject, one call at a time,
\* and shows 'Ready' with its button enabled
C38_Witness ==
    /\ peEditor = 1
    /\ Len(peCalls) = 3
    /\ \A c \in DOMAIN peCalls : peCalls[c].ed = 1
    /\ {peCalls[c].state : c \in DOMAIN peCalls} = {"threw", "resolved", "rejected"}
    /\ ~peButtons[1].disabled /\ peStatus[1] = "Ready"

----------------------------------------------------------------------------
(* Properties of KeyBindings *)

\* the flags of the combo equal those of the event, and its key, if it has
\* one, is the key of the event in lower case
ComboFits(event, combo) ==
    /\ combo.ctrl = event.ctrlKey /\ combo.meta = event.metaKey
    /\ combo.alt = event.altKey /\ combo.shift = event.shiftKey
    /\ combo.key = "" \/ combo.key = ToLowerCase(event.key)

\* the positions of the bindings whose when predicate passes and one of whose
\* combos fits the event
Eligible(event) ==
    {i \in DOMAIN kbBindings :
        /\ kbBindings[i].when = "focused" => kbFocused
        /\ \E j \in DOMAIN kbBindings[i].combos : ComboFits(event, kbBindings[i].combos[j])}

\* for the event just dispatched, exactly the handler of the first eligible
\* binding was invoked, if there is one and the listener is registered
FirstEligibleInvoked ==
    /\ Len(kbInvoked) <= 1
    /\ kbEvent # NoEvent =>
          kbInvoked = IF kbListening /\ Eligible(kbEvent) # {}
                      THEN <<kbBindings[CHOOSE i \in Eligible(kbEvent) :
                                            \A k \in Eligible(kbEvent) : i <= k].id>>
                      ELSE <<>>

\* C39 as stated: at most one handler is invoked per keydown, that of the
\* first binding in registration order whose when passes and one of whose
\* combos matches with equal flags; after removeAll() or destroy() no
\* handler is invoked.
C39_DispatchAndRemoval ==
    /\ FirstEligibleInvoked
    /\ (kbRemoved # {} \/ kbDestroyed) => kbInvoked = <<>>

\* C39, amended: the same dispatch; after removeAll() no handler of a binding
\* added before it is invoked, while a binding added afterwards is
\* dispatched to; after destroy() no handler is invoked at all.
C39_DispatchAndRemovalOfEarlier ==
    /\ FirstEligibleInvoked
    /\ \A k \in DOMAIN kbInvoked : kbInvoked[k] \notin kbRemoved
    /\ kbDestroyed => kbInvoked = <<>>

\* two bindings fit the event and only the first was invoked; the second is
\* the first when the editor is not focused
C39_Witness ==
    /\ Len(kbBindings) = 2
    /\ Eligible(kbEvent) = {1, 2}
    /\ kbBindings[1].when = "focused"
    /\ kbEvent.key = "R" /\ kbEvent.ctrlKey /\ ~kbEvent.shiftKey
    /\ kbInvoked = <<kbBindings[1].id>>

----------------------------------------------------------------------------
(* Properties of CodeStorage *)

\* C40: right after save(s) with a string s, load() returns s and has() is
\* true; right after save() with a value that is no string, the item holds
\* the value cached before the call; right after clear(), has() is false,
\* load() returns null and the cached value is the empty string.
C40_RoundTrip ==
    /\ (csLast.op = "save" /\ csLast.arg.t = "string") =>
            /\ load(csValue, csItem).ret = csLast.arg
            /\ has(csItem)
    /\ (csLast.op = "save" /\ csLast.arg.t # "string") =>
            /\ csItem = Item(csLast.cached)
            /\ csValue = csLast.cached
    /\ csLast.op = "clear" =>
            /\ ~has(csItem)
            /\ load(csValue, csItem).ret = Null
            /\ csValue = <<>>

\* a CodeStorage whose cache is empty was given undefined to save: the item
\* holds the empty string
C40_Witness ==
    /\ csLast.op = "save" /\ csLast.arg = Undefined
    /\ csLast.cached = <<>>
    /\ csItem = Item(<<>>)

====
